---- MODULE Spec2Model ----
(***************************************************************************)
(* Group / subgroup membership, leadership mirroring, cascade deletion and *)
(* access policy of the church-management backend, as implemented by the   *)
(* express route handlers over the mongoose models.                        *)
(*                                                                         *)
(* Documents are keyed by id; ids are handed out in increasing order and   *)
(* never reused.  A request is authenticated by a token that carries a     *)
(* snapshot of the account taken at login.                                 *)
(***************************************************************************)
EXTENDS Integers, Sequences, FiniteSets, TLC

\* ------------------------------------------------------------------ bounds
MaxGroups == 3
MaxUsers == 3
MaxLeaders == 2
MaxMembers == 4
MaxRequests == 2
MaxDay == 2
MaxEntries == 3
MaxBatch == 2
MaxCheckIns == 3

PersonIds == {1, 2}
GroupIds == 1..MaxGroups
SubgroupIds == {1, 2}
MemberIds == 1..MaxMembers
UserIds == 1..MaxUsers
RequestIds == 1..MaxRequests
EventIds == {1}

\* documents present in the store when the server connects
SeedGroupIds == {1, 2}
SeedUserIds == {1, 2}
SeedMemberIds == {1, 2, 3}

None == 0
NoChurch == "no_church"
Church == "church_1"
Undefined == "undefined"

\* ------------------------------------------------------- roles, permissions
ROLES ==
  {"admin", "user", "event_manager", "team_lead", "check_in_staff",
   "group_leader", "group_admin"}

\* models/churchUser.js: the table the pre-save hook copies permissions from
ROLE_PERMISSIONS(role) ==
  CASE role = "admin" ->
         {"manage_users", "manage_people", "manage_households", "manage_events",
          "manage_teams", "manage_groups", "view_people", "view_households",
          "view_events", "view_groups", "perform_check_in"}
    [] role = "event_manager" ->
         {"manage_events", "manage_teams", "view_events", "view_people",
          "perform_check_in"}
    [] role = "team_lead" -> {"manage_teams", "view_events", "view_people"}
    [] role = "group_leader" ->
         {"manage_group_members", "view_groups", "view_people"}
    [] role = "group_admin" ->
         {"manage_groups", "manage_group_members", "view_groups", "view_people"}
    [] role = "check_in_staff" -> {"view_events", "perform_check_in"}
    [] role = "user" -> {"view_events", "view_groups"}
    [] OTHER -> {}

\* utils/roles.js: the table checkPermission consults
PERMISSIONS(role) ==
  CASE role = "admin" ->
         {"manage_users", "manage_people", "manage_households", "manage_events",
          "manage_teams", "manage_groups", "manage_group_members", "view_people",
          "view_households", "view_events", "view_groups", "perform_check_in",
          "register_newcomers"}
    [] role = "event_manager" ->
         {"manage_events", "manage_teams", "view_events", "view_people",
          "view_groups", "perform_check_in", "register_newcomers"}
    [] role = "team_lead" ->
         {"manage_teams", "view_events", "view_people", "view_groups"}
    [] role = "group_leader" ->
         {"manage_group_members", "view_groups", "view_people", "view_events"}
    [] role = "group_admin" ->
         {"manage_groups", "manage_group_members", "view_groups", "view_people",
          "view_events"}
    [] role = "check_in_staff" ->
         {"view_events", "view_groups", "perform_check_in", "register_newcomers"}
    [] role = "user" -> {"view_events", "view_groups"}
    [] OTHER -> {}

hasPermission(role, permission) == permission \in PERMISSIONS(role)

\* ------------------------------------------------------------ value helpers
Range(s) == {s[i] : i \in 1..Len(s)}

RECURSIVE SeqFilterOut(_, _)
\* Array.filter(x => x.toString() !== v), and $pull: every occurrence goes
SeqFilterOut(s, v) ==
  IF s = <<>> THEN <<>>
  ELSE IF Head(s) = v THEN SeqFilterOut(Tail(s), v)
       ELSE <<Head(s)>> \o SeqFilterOut(Tail(s), v)

\* An id as a JavaScript value: the hex string of a route parameter, request
\* body or decoded token, or an ObjectId object read from a document.
Str(n) == <<"string", n>>
Oid(n) == <<"ObjectId", n>>

\* Array.prototype.includes on a plain array of strings (SameValueZero): a
\* string is found by content, an ObjectId object is identical to no element.
ArrayIncludes(arr, v) == v[1] = "string" /\ v[2] \in arr

\* MongooseArray.includes -> indexOf: the argument and the elements are
\* compared through their string form.
MongooseIncludes(arr, v) == v[2] \in Range(arr)

\* ------------------------------------------------------------------- state
VARIABLES
  persons,     \* set of the ids of the stored Person documents
  users,       \* ChurchUser documents by id
  groups,      \* Group documents by id
  subgroups,   \* Subgroup documents by id
  members,     \* GroupMember documents by id
  nextId,      \* next fresh id of each collection
  events,      \* Event documents by id
  attendances, \* the Attendance collection, in insertion order
  tokens,      \* the token each account's client holds (issued by login)
  reqs,        \* requests in flight between two awaits
  last         \* the response of the request that completed last

eventStore == <<events, attendances>>
store == <<persons, users, groups, subgroups, members, nextId, eventStore>>
vars == <<persons, users, groups, subgroups, members, nextId, events, attendances,
          tokens, reqs, last>>

NoUser == [live |-> FALSE, person |-> None, role |-> "user", permissions |-> {},
           groupLeaderships |-> <<>>, subgroupLeaderships |-> <<>>]
NoGroup == [live |-> FALSE, leaders |-> <<>>, church |-> NoChurch]
NoSubgroup == [live |-> FALSE, parentGroup |-> None, leaders |-> <<>>,
               church |-> NoChurch]
NoMember == [live |-> FALSE, person |-> None, group |-> None, subgroup |-> None,
             role |-> "member", attendance |-> <<>>, church |-> NoChurch]
NoToken == [issued |-> FALSE, uid |-> None, role |-> "user", permissions |-> {},
            groupLeaderships |-> {}, subgroupLeaderships |-> {},
            church |-> Undefined]

Response(op, actor, status, err, g, s, m, p, n) ==
  [op |-> op, actor |-> actor, status |-> status, err |-> err,
   g |-> g, s |-> s, m |-> m, p |-> p, n |-> n, k |-> 0, u |-> None,
   results |-> <<>>, report |-> {}]

NoResponse == Response("none", None, 0, "none", None, None, None, None, 0)

\* ---------------------------------------------------------- store queries
\* A filter value of undefined reaches the server as null, which matches only
\* a document whose field is null or missing.
ChurchMatches(docChurch, q) ==
  IF q = Undefined THEN docChurch = NoChurch ELSE docChurch = q

GroupFindOne(g, church) ==
  g \in GroupIds /\ groups[g].live /\ ChurchMatches(groups[g].church, church)

GroupFindById(g) == g \in GroupIds /\ groups[g].live

SubgroupFindById(s) == s \in SubgroupIds /\ subgroups[s].live

\* GroupMember.findOne({ person, group }): the ids of the matching documents
MembersOfPair(ms, p, g) ==
  {m \in MemberIds : ms[m].live /\ ms[m].person = p /\ ms[m].group = g}

MembersOfGroup(ms, g) == {m \in MemberIds : ms[m].live /\ ms[m].group = g}

MembersOfSubgroup(ms, s) == {m \in MemberIds : ms[m].live /\ ms[m].subgroup = s}

SubgroupsOfGroup(sgs, g) ==
  {s \in SubgroupIds : sgs[s].live /\ sgs[s].parentGroup = g}

\* ------------------------------------------------------------ access policy
\* middleware/auth.js auth: req.user is the decoded token, absent lists as []
ReqUser(a) == tokens[a]

\* routes/group.js authorizeGroupAccess(req, groupId)
authorizeGroupAccess(user, groupId) ==
  IF user.role = "admin" \/ "manage_groups" \in user.permissions THEN TRUE
  ELSE IF ArrayIncludes(user.groupLeaderships, groupId) THEN TRUE
  ELSE FALSE

\* routes/auth.js GET /validate-group-permission/:groupId, hasPermission field
validateGroupPermission(decoded, groupId) ==
  IF decoded.role = "admin" \/ "manage_groups" \in decoded.permissions THEN TRUE
  ELSE IF ArrayIncludes(decoded.groupLeaderships, groupId) THEN TRUE
  ELSE FALSE

\* bug: the parent-group leadership branch is missing
authorizeSubgroupAccess_NoParent(user, subgroupId) ==
  IF user.role = "admin" \/ "manage_groups" \in user.permissions
    THEN [ok |-> TRUE, lookups |-> 0]
  ELSE IF ArrayIncludes(user.subgroupLeaderships, subgroupId)
    THEN [ok |-> TRUE, lookups |-> 0]
  ELSE [ok |-> FALSE, lookups |-> 1]

\* routes/subgroup.js authorizeSubgroupAccess(req, subgroupId): the decision
\* and the number of Subgroup.findById calls made to reach it
authorizeSubgroupAccess(user, subgroupId) ==
  IF user.role = "admin" \/ "manage_groups" \in user.permissions
    THEN [ok |-> TRUE, lookups |-> 0]
  ELSE IF ArrayIncludes(user.subgroupLeaderships, subgroupId)
    THEN [ok |-> TRUE, lookups |-> 0]
  ELSE IF ~SubgroupFindById(subgroupId[2])
    THEN [ok |-> FALSE, lookups |-> 1]
  ELSE IF ArrayIncludes(user.groupLeaderships,
                        Str(subgroups[subgroupId[2]].parentGroup))
    THEN [ok |-> TRUE, lookups |-> 1]
  ELSE [ok |-> FALSE, lookups |-> 1]

\* the inline check of POST /api/subgroups and DELETE /api/subgroups/:id
isAdminOrGroupLeader(user, parentGroup) ==
  LET isAdmin == user.role = "admin" \/ "manage_groups" \in user.permissions
      isGroupLeader == ArrayIncludes(user.groupLeaderships, parentGroup)
  IN  isAdmin \/ isGroupLeader

\* ------------------------------------------------------------ store writes
\* Subgroup.deleteMany({ parentGroup: g })
SubgroupDeleteMany(sgs, g) ==
  [s \in SubgroupIds |->
     IF sgs[s].live /\ sgs[s].parentGroup = g THEN NoSubgroup ELSE sgs[s]]

\* bug: the filter also requires the subgroup to be unset
GroupMemberDeleteMany_OnlyUnassigned(ms, g) ==
  [m \in MemberIds |->
     IF ms[m].live /\ ms[m].group = g /\ ms[m].subgroup = None
       THEN NoMember ELSE ms[m]]

\* GroupMember.deleteMany({ group: g })
GroupMemberDeleteMany(ms, g) ==
  [m \in MemberIds |-> IF ms[m].live /\ ms[m].group = g THEN NoMember ELSE ms[m]]

\* bug: the accounts keep the deleted group in groupLeaderships
ChurchUserPullGroup_None(us, g) == us

\* ChurchUser.updateMany({ groupLeaderships: g }, { $pull: { groupLeaderships: g } })
ChurchUserPullGroup(us, g) ==
  [u \in UserIds |->
     IF us[u].live
       THEN [us[u] EXCEPT !.groupLeaderships = SeqFilterOut(@, g)]
       ELSE us[u]]

\* Group.deleteOne({ _id: g })
GroupDeleteOne(gs, g) == [gs EXCEPT ![g] = NoGroup]

\* bug: deleteMany in place of updateMany/$unset
GroupMemberUnsetSubgroup_Delete(ms, s) ==
  [m \in MemberIds |-> IF ms[m].live /\ ms[m].subgroup = s THEN NoMember ELSE ms[m]]

\* GroupMember.updateMany({ subgroup: s }, { $unset: { subgroup: "" } })
GroupMemberUnsetSubgroup(ms, s) ==
  [m \in MemberIds |->
     IF ms[m].live /\ ms[m].subgroup = s
       THEN [ms[m] EXCEPT !.subgroup = None]
       ELSE ms[m]]

\* bug: the accounts keep the deleted subgroup in subgroupLeaderships
ChurchUserPullSubgroup_None(us, s) == us

\* ChurchUser.updateMany({ subgroupLeaderships: s }, { $pull: ... })
ChurchUserPullSubgroup(us, s) ==
  [u \in UserIds |->
     IF us[u].live
       THEN [us[u] EXCEPT !.subgroupLeaderships = SeqFilterOut(@, s)]
       ELSE us[u]]

\* Subgroup.deleteOne({ _id: s })
SubgroupDeleteOne(sgs, s) == [sgs EXCEPT ![s] = NoSubgroup]

\* GroupMember.deleteMany({ person: p })
GroupMemberDeleteByPerson(ms, p) ==
  [m \in MemberIds |-> IF ms[m].live /\ ms[m].person = p THEN NoMember ELSE ms[m]]

\* bug: every record of the member's person is deleted
GroupMemberDeleteOne_ByPerson(ms, m) == GroupMemberDeleteByPerson(ms, ms[m].person)

\* GroupMember.deleteOne({ _id: m })
GroupMemberDeleteOne(ms, m) == [ms EXCEPT ![m] = NoMember]

\* ------------------------------------------------------------------- login
\* routes/auth.js POST /login: the token payload.  populate() drops the ids
\* of documents that no longer exist; the ids are serialised as strings; the
\* payload has no church claim.
TokenFor(u) ==
  [issued |-> TRUE, uid |-> u, role |-> users[u].role,
   permissions |-> users[u].permissions,
   groupLeaderships |->
     {g \in Range(users[u].groupLeaderships) : GroupFindById(g)},
   subgroupLeaderships |->
     {s \in Range(users[u].subgroupLeaderships) : SubgroupFindById(s)},
   church |-> Undefined]

Login(u) ==
  /\ users[u].live
  /\ tokens[u] # TokenFor(u)
  /\ tokens' = [tokens EXCEPT ![u] = TokenFor(u)]
  /\ last' = Response("Login", u, 200, "none", None, None, None, None, 0)
  /\ UNCHANGED <<store, reqs>>

\* ------------------------------------------------------------- replies
Reply(resp) == last' = resp /\ UNCHANGED <<tokens, reqs, eventStore>>

Reject(resp) == Reply(resp) /\ UNCHANGED store

\* -------------------------------------------------------------- start-up
\* The accounts of the seeded store: an administrator and a group leader whose
\* leadership lists mirror the leaders of the seeded groups and subgroups.
SeedUsers(gl, sl) ==
  [u \in UserIds |->
     IF u = 1 THEN
       [live |-> TRUE, person |-> 1, role |-> "admin",
        permissions |-> ROLE_PERMISSIONS("admin"),
        groupLeaderships |-> <<>>, subgroupLeaderships |-> <<>>]
     ELSE IF u = 2 THEN
       [live |-> TRUE, person |-> 2, role |-> "group_leader",
        permissions |-> ROLE_PERMISSIONS("group_leader"),
        groupLeaderships |-> IF gl = <<>> THEN <<>> ELSE <<1>>,
        subgroupLeaderships |-> IF sl = <<>> THEN <<>> ELSE <<1>>]
     ELSE NoUser]

\* Groups created through POST /api/groups carry no church (the token has none).
SeedGroups(gl) ==
  [g \in GroupIds |->
     IF g = 1 THEN [live |-> TRUE, leaders |-> gl, church |-> NoChurch]
     ELSE IF g \in SeedGroupIds
       THEN [live |-> TRUE, leaders |-> <<>>, church |-> NoChurch]
     ELSE NoGroup]

\* Subgroup and GroupMember documents satisfy their schemas: church is set.
SeedSubgroups(sl, parent2) ==
  [s \in SubgroupIds |->
     IF s = 1
       THEN [live |-> TRUE, parentGroup |-> 1, leaders |-> sl, church |-> Church]
       ELSE [live |-> TRUE, parentGroup |-> parent2, leaders |-> <<>>,
             church |-> Church]]

\* seeded member m belongs to person SeedPerson(m) and group SeedGroup(m)
SeedPerson(m) == ((m - 1) % 2) + 1
SeedGroup(m) == ((m - 1) \div 2) + 1

SeedMemberChoices(sgs) ==
  {ms \in [MemberIds ->
             {NoMember} \cup
             [live : {TRUE}, person : PersonIds, group : SeedGroupIds,
              subgroup : {None} \cup SubgroupIds, role : {"member"},
              attendance : {<<>>}, church : {Church}]] :
     \A m \in MemberIds :
       ms[m].live =>
         /\ m \in SeedMemberIds
         /\ ms[m].person = SeedPerson(m)
         /\ ms[m].group = SeedGroup(m)
         /\ ms[m].subgroup # None =>
              sgs[ms[m].subgroup].parentGroup = ms[m].group}

\* One event without check-ins is stored.
SeedEvents == [e \in EventIds |-> [live |-> TRUE, attendees |-> <<>>]]

\* Two seeded stores: account 2 leads group 1, which holds both subgroups; or
\* account 2 leads subgroup 1 only, and each group holds one subgroup.
Seeds ==
  {[gl |-> <<2>>, sl |-> <<>>, parent2 |-> 1],
   [gl |-> <<>>, sl |-> <<2>>, parent2 |-> 2]}

Init ==
  \E seed \in Seeds :
    /\ persons = PersonIds
    /\ users = SeedUsers(seed.gl, seed.sl)
    /\ groups = SeedGroups(seed.gl)
    /\ subgroups = SeedSubgroups(seed.sl, seed.parent2)
    /\ members \in SeedMemberChoices(SeedSubgroups(seed.sl, seed.parent2))
    /\ nextId = [group |-> 3, subgroup |-> 3, member |-> 4, user |-> 3]
    /\ tokens = [u \in UserIds |-> NoToken]
    /\ events = SeedEvents
    /\ attendances = <<>>
    /\ reqs = {}
    /\ last = NoResponse

\* ------------------------------------------------------------- cascade
\* routes/group.js DELETE /api/groups/:id
DeleteGroup(a, g) ==
  LET user == ReqUser(a) IN
  /\ user.issued
  /\ IF ~hasPermission(user.role, "manage_groups") THEN
       Reject(Response("DeleteGroup", a, 403, "Unauthorized", g, None, None, None, 0))
     ELSE IF ~GroupFindOne(g, user.church) THEN
       Reject(Response("DeleteGroup", a, 404, "NotFound", g, None, None, None, 0))
     ELSE
       /\ subgroups' = SubgroupDeleteMany(subgroups, g)
       /\ members' = GroupMemberDeleteMany(members, g)
       /\ users' = ChurchUserPullGroup(users, g)
       /\ groups' = GroupDeleteOne(groups, g)
       /\ UNCHANGED <<persons, nextId>>
       /\ Reply([Response("DeleteGroup", a, 200, "none", g, None, None, None,
                          Cardinality(MembersOfGroup(members, g)))
                   EXCEPT !.k = Cardinality(SubgroupsOfGroup(subgroups, g))])

\* routes/subgroup.js DELETE /api/subgroups/:id
DeleteSubgroup(a, s) ==
  LET user == ReqUser(a) IN
  /\ user.issued
  /\ IF ~SubgroupFindById(s) THEN
       Reject(Response("DeleteSubgroup", a, 404, "NotFound", None, s, None, None, 0))
     ELSE IF ~isAdminOrGroupLeader(user, Str(subgroups[s].parentGroup)) THEN
       Reject(Response("DeleteSubgroup", a, 403, "Unauthorized", None, s, None, None, 0))
     ELSE
       /\ members' = GroupMemberUnsetSubgroup(members, s)
       /\ users' = ChurchUserPullSubgroup(users, s)
       /\ subgroups' = SubgroupDeleteOne(subgroups, s)
       /\ UNCHANGED <<persons, groups, nextId>>
       /\ Reply(Response("DeleteSubgroup", a, 200, "none",
                         subgroups[s].parentGroup, s, None, None,
                         Cardinality(MembersOfSubgroup(members, s))))

\* routes/person.js DELETE /api/people/:id (behind auth only)
DeletePerson(a, p) ==
  LET user == ReqUser(a) IN
  /\ user.issued
  /\ members' = GroupMemberDeleteByPerson(members, p)
  /\ persons' = persons \ {p}
  /\ UNCHANGED <<users, groups, subgroups, nextId>>
  /\ Reply(Response("DeletePerson", a, IF p \in persons THEN 200 ELSE 404,
                    IF p \in persons THEN "none" ELSE "NotFound",
                    None, None, None, p,
                    Cardinality({m \in MemberIds :
                                   members[m].live /\ members[m].person = p})))

\* ---------------------------------------------------------- membership
\* new GroupMember({ person, group, subgroup: subgroupId || null,
\*                   role: role || 'member', church: req.user.church })
NewGroupMember(p, g, sg, role, church) ==
  [live |-> TRUE, person |-> p, group |-> g, subgroup |-> sg,
   role |-> IF role = Undefined THEN "member" ELSE role,
   attendance |-> <<>>, church |-> church]

\* document.save(): schema validation runs first (church, person and group
\* are required, role is an enum), then the insert meets the unique index on
\* (person, group).  The name of the error thrown, or "none".
GroupMemberSaveError(ms, doc) ==
  IF doc.church = Undefined \/ doc.person = None \/ doc.group = None
     \/ doc.role \notin {"member", "leader", "assistant", "admin"}
    THEN "ValidationError"
  ELSE IF MembersOfPair(ms, doc.person, doc.group) # {}
    THEN "MongoServerError"
  ELSE "none"

\* the catch block of POST /api/groups/:id/members
AddMemberCatchStatus(errName) == IF errName = "ValidationError" THEN 400 ELSE 500

ErrorKind(errName) ==
  IF errName = "ValidationError" THEN "ValidationError" ELSE "ServerError"

\* bug: the filter's two ids are swapped
AddMemberExisting_Swapped(ms, p, g) == MembersOfPair(ms, g, p) # {}

\* GroupMember.findOne({ person, group }) of the handler's pre-check
AddMemberExisting(ms, p, g) == MembersOfPair(ms, p, g) # {}

\* routes/group.js POST /api/groups/:id/members
AddMember(a, g, p, sg, role) ==
  LET user == ReqUser(a)
      doc == NewGroupMember(p, g, sg, role, user.church)
      err == GroupMemberSaveError(members, doc)
  IN
  /\ user.issued
  /\ IF ~authorizeGroupAccess(user, Str(g)) THEN
       Reject(Response("AddMember", a, 403, "Unauthorized", g, sg, None, p, 0))
     ELSE IF AddMemberExisting(members, p, g) THEN
       Reject(Response("AddMember", a, 400, "DuplicateMembership", g, sg, None, p, 0))
     ELSE IF err # "none" THEN
       Reject(Response("AddMember", a, AddMemberCatchStatus(err), ErrorKind(err),
                       g, sg, None, p, 0))
     ELSE
       /\ nextId.member \in MemberIds
       /\ members' = [members EXCEPT ![nextId.member] = doc]
       /\ nextId' = [nextId EXCEPT !.member = @ + 1]
       /\ UNCHANGED <<persons, users, groups, subgroups, eventStore>>
       /\ Reply(Response("AddMember", a, 200, "none", g, sg, nextId.member, p, 1))

\* POST /api/groups/:id/members as the event loop runs it: the handler up to
\* the await of newMember.save(), and the continuation after it.  A request
\* that got past the pre-check waits in reqs with pc = "save"; peers are the
\* requests for the same pair that were waiting there when it passed.
AddMemberRequest(id, a, g, p, sg, role, church, pc, status, err, peers) ==
  [id |-> id, actor |-> a, g |-> g, p |-> p, sg |-> sg, role |-> role,
   church |-> church, pc |-> pc, status |-> status, err |-> err, peers |-> peers]

InProgress == {r \in reqs : r.pc # "done"}

FreeRequestIds == RequestIds \ {r.id : r \in reqs}

AddMemberBegin(a, g, p, sg, role) ==
  LET user == ReqUser(a)
      id == CHOOSE i \in FreeRequestIds : \A j \in FreeRequestIds : i <= j
      peers == {r.id : r \in {q \in InProgress : q.g = g /\ q.p = p}}
      Done(status, err) ==
        AddMemberRequest(id, a, g, p, sg, role, user.church, "done", status, err, peers)
  IN
  /\ user.issued
  /\ FreeRequestIds # {}
  /\ UNCHANGED <<store, tokens>>
  /\ IF ~authorizeGroupAccess(user, Str(g)) THEN
       /\ reqs' = reqs \cup {Done(403, "Unauthorized")}
       /\ last' = Response("AddMember", a, 403, "Unauthorized", g, sg, None, p, 0)
     ELSE IF AddMemberExisting(members, p, g) THEN
       /\ reqs' = reqs \cup {Done(400, "DuplicateMembership")}
       /\ last' = Response("AddMember", a, 400, "DuplicateMembership", g, sg, None, p, 0)
     ELSE
       /\ reqs' = reqs \cup {AddMemberRequest(id, a, g, p, sg, role, user.church,
                                              "save", 0, "none", peers)}
       /\ last' = Response("AddMemberBegin", a, 0, "none", g, sg, None, p, 0)

AddMemberSave(r) ==
  LET doc == NewGroupMember(r.p, r.g, r.sg, r.role, r.church)
      err == GroupMemberSaveError(members, doc)
      Done(status, kind) == [r EXCEPT !.pc = "done", !.status = status, !.err = kind]
  IN
  /\ r \in InProgress
  /\ r.pc = "save"
  /\ UNCHANGED tokens
  /\ IF err # "none" THEN
       /\ reqs' = (reqs \ {r}) \cup {Done(AddMemberCatchStatus(err), ErrorKind(err))}
       /\ last' = Response("AddMember", r.actor, AddMemberCatchStatus(err),
                           ErrorKind(err), r.g, r.sg, None, r.p, 0)
       /\ UNCHANGED store
     ELSE
       /\ nextId.member \in MemberIds
       /\ members' = [members EXCEPT ![nextId.member] = doc]
       /\ nextId' = [nextId EXCEPT !.member = @ + 1]
       /\ UNCHANGED <<persons, users, groups, subgroups, eventStore>>
       /\ reqs' = (reqs \ {r}) \cup {Done(200, "none")}
       /\ last' = Response("AddMember", r.actor, 200, "none", r.g, r.sg,
                           nextId.member, r.p, 1)

\* routes/group.js PUT /api/groups/members/:memberId
\* sgArg: [given |-> whether the body has subgroupId, id |-> its value or None]
UpdateMember(a, m, sgArg, role) ==
  LET user == ReqUser(a) IN
  /\ user.issued
  /\ IF ~members[m].live THEN
       Reject(Response("UpdateMember", a, 404, "NotFound", None, sgArg.id, m, None, 0))
     ELSE IF ~GroupFindById(members[m].group) THEN
       \* populate('group') leaves null; member.group._id throws a TypeError
       Reject(Response("UpdateMember", a, 500, "ServerError",
                       members[m].group, sgArg.id, m, None, 0))
     ELSE IF ~authorizeGroupAccess(user, Oid(members[m].group)) THEN
       Reject(Response("UpdateMember", a, 403, "Unauthorized",
                       members[m].group, sgArg.id, m, None, 0))
     ELSE
       /\ members' = [members EXCEPT
                        ![m].subgroup = IF sgArg.given THEN sgArg.id ELSE @,
                        ![m].role = IF role = Undefined THEN @ ELSE role]
       /\ UNCHANGED <<persons, users, groups, subgroups, nextId>>
       /\ Reply(Response("UpdateMember", a, 200, "none",
                         members[m].group, sgArg.id, m, None, 1))

\* routes/group.js DELETE /api/groups/members/:memberId
RemoveMember(a, m) ==
  LET user == ReqUser(a) IN
  /\ user.issued
  /\ IF ~members[m].live THEN
       Reject(Response("RemoveMember", a, 404, "NotFound", None, None, m, None, 0))
     ELSE IF ~GroupFindById(members[m].group) THEN
       Reject(Response("RemoveMember", a, 500, "ServerError",
                       members[m].group, None, m, None, 0))
     ELSE IF ~authorizeGroupAccess(user, Oid(members[m].group)) THEN
       Reject(Response("RemoveMember", a, 403, "Unauthorized",
                       members[m].group, None, m, None, 0))
     ELSE
       /\ members' = GroupMemberDeleteOne(members, m)
       /\ UNCHANGED <<persons, users, groups, subgroups, nextId>>
       /\ Reply(Response("RemoveMember", a, 200, "none",
                         members[m].group, None, m, None, 1))

\* bug: the person's record is looked up in any group
ParentGroupMember_AnyGroup(ms, p, g) ==
  {m \in MemberIds : ms[m].live /\ ms[m].person = p}

\* GroupMember.findOne({ person, group: subgroup.parentGroup })
ParentGroupMember(ms, p, g) == MembersOfPair(ms, p, g)

\* routes/subgroup.js POST /api/subgroups/:id/members/:personId
AddToSubgroup(a, s, p) ==
  LET user == ReqUser(a)
      found == IF SubgroupFindById(s)
                 THEN ParentGroupMember(members, p, subgroups[s].parentGroup)
                 ELSE {}
  IN
  /\ user.issued
  /\ IF ~authorizeSubgroupAccess(user, Str(s)).ok THEN
       Reject(Response("AddToSubgroup", a, 403, "Unauthorized", None, s, None, p, 0))
     ELSE IF ~SubgroupFindById(s) THEN
       Reject(Response("AddToSubgroup", a, 404, "NotFound", None, s, None, p, 0))
     ELSE IF found = {} THEN
       Reject(Response("AddToSubgroup", a, 400, "InvalidSubgroupAssignment",
                       subgroups[s].parentGroup, s, None, p, 0))
     ELSE
       LET m == CHOOSE x \in found : TRUE IN
       /\ members' = [members EXCEPT ![m].subgroup = s]
       /\ UNCHANGED <<persons, users, groups, subgroups, nextId>>
       /\ Reply(Response("AddToSubgroup", a, 200, "none",
                         subgroups[s].parentGroup, s, m, p, 1))

\* routes/subgroup.js DELETE /api/subgroups/:id/members/:personId
RemoveFromSubgroup(a, s, p) ==
  LET user == ReqUser(a)
      found == {m \in MembersOfSubgroup(members, s) : members[m].person = p}
  IN
  /\ user.issued
  /\ IF ~authorizeSubgroupAccess(user, Str(s)).ok THEN
       Reject(Response("RemoveFromSubgroup", a, 403, "Unauthorized",
                       None, s, None, p, 0))
     ELSE IF found = {} THEN
       Reject(Response("RemoveFromSubgroup", a, 404, "NotFound", None, s, None, p, 0))
     ELSE
       LET m == CHOOSE x \in found : TRUE IN
       /\ members' = [members EXCEPT ![m].subgroup = None]
       /\ UNCHANGED <<persons, users, groups, subgroups, nextId>>
       /\ Reply(Response("RemoveFromSubgroup", a, 200, "none",
                         members[m].group, s, m, p, 1))

\* ----------------------------------------------------------- attendance
\* A date of a request is a string: a calendar day, with or without a time
\* of day.  new Date(string) is the instant it denotes, in half days.
DateInputs == [day : 1..MaxDay, noon : BOOLEAN]

NewDate(d) == 2 * d.day + (IF d.noon THEN 1 ELSE 0)

\* attendance.push({ date: new Date(date), status, notes: notes || '' })
AttendanceEntry(date, status) ==
  [date |-> NewDate(date), status |-> status, notes |-> ""]

\* GroupMember.findOne({ _id: memberId, group | subgroup: target, church })
AttendanceMember(ms, m, kind, target, church) ==
  /\ m \in MemberIds
  /\ ms[m].live
  /\ IF kind = "group" THEN ms[m].group = target ELSE ms[m].subgroup = target
  /\ ChurchMatches(ms[m].church, church)

\* the loop over attendanceData: the member documents after it
RECURSIVE AttendanceSaved(_, _, _, _, _, _)
AttendanceSaved(ms, data, date, kind, target, church) ==
  IF data = <<>> THEN ms
  ELSE
    LET rec == Head(data)
        after == IF AttendanceMember(ms, rec.memberId, kind, target, church)
                   THEN [ms EXCEPT ![rec.memberId].attendance =
                           Append(@, AttendanceEntry(date, rec.status))]
                   ELSE ms
    IN AttendanceSaved(after, Tail(data), date, kind, target, church)

\* bug: the loop ends after its first record
AttendanceResults_FirstOnly(ms, data, date, kind, target, church) ==
  IF data = <<>> THEN <<>>
  ELSE <<[memberId |-> Head(data).memberId,
          success |-> AttendanceMember(ms, Head(data).memberId, kind, target, church)]>>

\* the loop over attendanceData: the results array
RECURSIVE AttendanceResults(_, _, _, _, _, _)
AttendanceResults(ms, data, date, kind, target, church) ==
  IF data = <<>> THEN <<>>
  ELSE
    LET rec == Head(data)
        found == AttendanceMember(ms, rec.memberId, kind, target, church)
        after == IF found
                   THEN [ms EXCEPT ![rec.memberId].attendance =
                           Append(@, AttendanceEntry(date, rec.status))]
                   ELSE ms
    IN <<[memberId |-> rec.memberId, success |-> found]>>
         \o AttendanceResults(after, Tail(data), date, kind, target, church)

Successes(results) == Cardinality({i \in DOMAIN results : results[i].success})

\* routes/group.js POST /api/groups/:id/attendance
RecordGroupAttendance(a, g, date, data) ==
  LET user == ReqUser(a)
      saved == AttendanceSaved(members, data, date, "group", g, user.church)
      results == AttendanceResults(members, data, date, "group", g, user.church)
  IN
  /\ user.issued
  /\ IF ~authorizeGroupAccess(user, Str(g)) THEN
       Reject(Response("RecordAttendance", a, 403, "Unauthorized",
                       g, None, None, None, 0))
     ELSE
       /\ \A m \in MemberIds : Len(saved[m].attendance) <= MaxEntries
       /\ members' = saved
       /\ UNCHANGED <<persons, users, groups, subgroups, nextId>>
       /\ Reply([Response("RecordAttendance", a, 200, "none", g, None, None, None,
                          Successes(results))
                   EXCEPT !.results = results, !.k = NewDate(date)])

\* routes/subgroup.js POST /api/subgroups/:id/attendance
RecordSubgroupAttendance(a, s, date, data) ==
  LET user == ReqUser(a)
      saved == AttendanceSaved(members, data, date, "subgroup", s, user.church)
      results == AttendanceResults(members, data, date, "subgroup", s, user.church)
  IN
  /\ user.issued
  /\ IF ~authorizeSubgroupAccess(user, Str(s)).ok THEN
       Reject(Response("RecordAttendance", a, 403, "Unauthorized",
                       None, s, None, None, 0))
     ELSE
       /\ \A m \in MemberIds : Len(saved[m].attendance) <= MaxEntries
       /\ members' = saved
       /\ UNCHANGED <<persons, users, groups, subgroups, nextId>>
       /\ Reply([Response("RecordAttendance", a, 200, "none", None, s, None, None,
                          Successes(results))
                   EXCEPT !.results = results, !.k = NewDate(date)])

\* $filter / Array.prototype.filter: the entries with from <= date <= to
AttendanceBetween(attendance, from, to) ==
  SelectSeq(attendance, LAMBDA e : from <= e.date /\ e.date <= to)

\* models/groupMember.js getGroupAttendance: $match the group's members that
\* have an entry in the range, $lookup / $unwind their person, $project the
\* entries in the range
getGroupAttendance(ms, ps, groupId, startDate, endDate) ==
  {[memberId |-> m,
    attendance |-> AttendanceBetween(ms[m].attendance,
                                     NewDate(startDate), NewDate(endDate))] :
     m \in {x \in MembersOfGroup(ms, groupId) :
              /\ \E i \in DOMAIN ms[x].attendance :
                   /\ NewDate(startDate) <= ms[x].attendance[i].date
                   /\ ms[x].attendance[i].date <= NewDate(endDate)
              /\ ms[x].person \in ps}}

\* routes/group.js GET /api/groups/:id/attendance
GetGroupAttendance(a, g, startDate, endDate) ==
  LET user == ReqUser(a) IN
  /\ user.issued
  /\ IF ~authorizeGroupAccess(user, Str(g)) THEN
       Reject(Response("GetAttendanceReport", a, 403, "Unauthorized",
                       g, None, None, None, 0))
     ELSE
       Reject([Response("GetAttendanceReport", a, 200, "none", g, None, None, None,
                        NewDate(startDate))
                 EXCEPT !.k = NewDate(endDate),
                        !.report = getGroupAttendance(members, persons, g,
                                                      startDate, endDate)])

\* GroupMember.find({ subgroup, church: req.user.church })
SubgroupAttendanceMembers(ms, s, church) ==
  {m \in MembersOfSubgroup(ms, s) : ChurchMatches(ms[m].church, church)}

\* routes/subgroup.js GET /api/subgroups/:id/attendance
GetSubgroupAttendance(a, s, startDate, endDate) ==
  LET user == ReqUser(a)
      found == SubgroupAttendanceMembers(members, s, user.church)
  IN
  /\ user.issued
  /\ IF ~authorizeSubgroupAccess(user, Str(s)).ok THEN
       Reject(Response("GetAttendanceReport", a, 403, "Unauthorized",
                       None, s, None, None, 0))
     ELSE IF \E m \in found : members[m].person \notin persons THEN
       \* Person.findById gives null; person.firstName throws a TypeError
       Reject(Response("GetAttendanceReport", a, 500, "ServerError",
                       None, s, None, None, 0))
     ELSE
       Reject([Response("GetAttendanceReport", a, 200, "none", None, s, None, None,
                        NewDate(startDate))
                 EXCEPT !.k = NewDate(endDate),
                        !.report =
                          {[memberId |-> m,
                            attendance |->
                              AttendanceBetween(members[m].attendance,
                                                NewDate(startDate),
                                                NewDate(endDate))] : m \in found}])

\* ----------------------------------------------------------- leadership
\* bug: the guard is dropped and nothing is pushed
addGroupLeadership_NoPush(doc, groupId) == doc

\* models/churchUser.js addGroupLeadership(groupId): push unless included, save
addGroupLeadership(doc, groupId) ==
  IF ~MongooseIncludes(doc.groupLeaderships, groupId)
    THEN [doc EXCEPT !.groupLeaderships = Append(@, groupId[2])]
    ELSE doc

\* ChurchUser.find({ person: { $in: leaders } })
ChurchUsersOfPersons(leaders) ==
  {u \in UserIds : users[u].live /\ users[u].person \in Range(leaders)}

\* routes/group.js POST /api/groups
CreateGroup(a, leaders) ==
  LET user == ReqUser(a)
      g == nextId.group
      churchUsers == ChurchUsersOfPersons(leaders)
  IN
  /\ user.issued
  /\ IF ~hasPermission(user.role, "manage_groups") THEN
       Reject(Response("CreateGroup", a, 403, "Unauthorized", None, None, None, None, 0))
     ELSE
       /\ g \in GroupIds
       /\ \A u \in churchUsers : Len(users[u].groupLeaderships) < MaxLeaders
       /\ groups' = [groups EXCEPT ![g] =
                       [live |-> TRUE, leaders |-> leaders,
                        church |-> IF user.church = Undefined
                                     THEN NoChurch ELSE user.church]]
       /\ users' = [u \in UserIds |->
                      IF u \in churchUsers
                        THEN addGroupLeadership(users[u], Oid(g))
                        ELSE users[u]]
       /\ nextId' = [nextId EXCEPT !.group = @ + 1]
       /\ UNCHANGED <<persons, subgroups, members>>
       /\ Reply(Response("CreateGroup", a, 200, "none", g, None, None, None,
                         Cardinality(churchUsers)))

\* routes/group.js PUT /api/groups/:id
\* leadersArg: [given |-> whether the body has a leaders array, list |-> it]
UpdateGroup(a, g, leadersArg) ==
  LET user == ReqUser(a) IN
  /\ user.issued
  /\ IF ~authorizeGroupAccess(user, Str(g)) THEN
       Reject(Response("UpdateGroup", a, 403, "Unauthorized", g, None, None, None, 0))
     ELSE IF ~GroupFindOne(g, user.church) THEN
       Reject(Response("UpdateGroup", a, 404, "NotFound", g, None, None, None, 0))
     ELSE
       /\ groups' = [groups EXCEPT
                       ![g].leaders = IF leadersArg.given THEN leadersArg.list ELSE @]
       /\ UNCHANGED <<persons, users, subgroups, members, nextId>>
       /\ Reply(Response("UpdateGroup", a, 200, "none", g, None, None, None,
                         IF leadersArg.given THEN 1 ELSE 0))

\* routes/churchUsers.js POST /api/church-users/assign-group-leadership
AssignGroupLeadership(a, u, g) ==
  LET actor == ReqUser(a) IN
  /\ actor.issued
  /\ IF ~hasPermission(actor.role, "manage_groups") THEN
       Reject([Response("AssignGroupLeadership", a, 403, "Unauthorized",
                        g, None, None, None, 0) EXCEPT !.u = u])
     ELSE IF ~users[u].live \/ ~GroupFindById(g) THEN
       Reject([Response("AssignGroupLeadership", a, 404, "NotFound",
                        g, None, None, None, 0) EXCEPT !.u = u])
     ELSE
       LET isLeader == MongooseIncludes(groups[g].leaders, Oid(users[u].person)) IN
       /\ isLeader \/ Len(groups[g].leaders) < MaxLeaders
       /\ MongooseIncludes(users[u].groupLeaderships, Str(g))
            \/ Len(users[u].groupLeaderships) < MaxLeaders
       /\ groups' = [groups EXCEPT
                       ![g].leaders = IF isLeader THEN @
                                      ELSE Append(@, users[u].person)]
       /\ users' = [users EXCEPT ![u] = addGroupLeadership(@, Str(g))]
       /\ UNCHANGED <<persons, subgroups, members, nextId>>
       /\ Reply([Response("AssignGroupLeadership", a, 200, "none",
                          g, None, None, None, IF isLeader THEN 0 ELSE 1)
                   EXCEPT !.u = u])

\* routes/churchUsers.js POST /api/church-users/remove-group-leadership
RemoveGroupLeadership(a, u, g) ==
  LET actor == ReqUser(a) IN
  /\ actor.issued
  /\ IF ~hasPermission(actor.role, "manage_groups") THEN
       Reject([Response("RemoveGroupLeadership", a, 403, "Unauthorized",
                        g, None, None, None, 0) EXCEPT !.u = u])
     ELSE IF ~users[u].live \/ ~GroupFindById(g) THEN
       Reject([Response("RemoveGroupLeadership", a, 404, "NotFound",
                        g, None, None, None, 0) EXCEPT !.u = u])
     ELSE
       /\ groups' = [groups EXCEPT
                       ![g].leaders = SeqFilterOut(@, users[u].person)]
       /\ users' = [users EXCEPT
                      ![u].groupLeaderships = SeqFilterOut(@, g)]
       /\ UNCHANGED <<persons, subgroups, members, nextId>>
       /\ Reply([Response("RemoveGroupLeadership", a, 200, "none",
                          g, None, None, None,
                          IF users[u].person \in Range(groups[g].leaders)
                             /\ g \in Range(users[u].groupLeaderships)
                            THEN 1 ELSE 0)
                   EXCEPT !.u = u])

\* ------------------------------------------------------ subgroup creation
\* new Subgroup({ name, parentGroup, leaders: leaders || [], createdBy,
\*                church: req.user.church })
NewSubgroup(parentGroup, leaders, church) ==
  [live |-> TRUE, parentGroup |-> parentGroup, leaders |-> leaders,
   church |-> church]

\* subgroup.save(): name, parentGroup, createdBy and church are required; the
\* ref of parentGroup is not looked up.  The name of the error, or "none".
SubgroupSaveError(doc) ==
  IF doc.church = Undefined \/ doc.parentGroup = None
    THEN "ValidationError" ELSE "none"

\* user.subgroupLeaderships.push(subgroup._id) for the accounts of the leaders
ChurchUserPushSubgroup(us, leaders, sg) ==
  [u \in UserIds |->
     IF u \in ChurchUsersOfPersons(leaders)
       THEN [us[u] EXCEPT !.subgroupLeaderships = Append(@, sg)]
       ELSE us[u]]

\* the part the two creation routes share: save, leaders' accounts, answer
SubgroupSaveAndReply(op, a, g, leaders, church) ==
  LET doc == NewSubgroup(g, leaders, church)
      err == SubgroupSaveError(doc)
      id == nextId.subgroup
  IN
  IF err # "none" THEN
    Reject(Response(op, a, AddMemberCatchStatus(err), ErrorKind(err),
                    g, None, None, None, 0))
  ELSE
    /\ id \in SubgroupIds
    /\ \A u \in ChurchUsersOfPersons(leaders) :
         Len(users[u].subgroupLeaderships) < MaxLeaders
    /\ subgroups' = [subgroups EXCEPT ![id] = doc]
    /\ users' = ChurchUserPushSubgroup(users, leaders, id)
    /\ nextId' = [nextId EXCEPT !.subgroup = @ + 1]
    /\ UNCHANGED <<persons, groups, members>>
    /\ Reply(Response(op, a, 200, "none", g, id, None, None, 1))

\* routes/subgroup.js POST /api/subgroups
CreateSubgroup(a, g, leaders) ==
  LET user == ReqUser(a) IN
  /\ user.issued
  /\ IF ~GroupFindById(g) THEN
       Reject(Response("CreateSubgroup", a, 404, "NotFound", g, None, None, None, 0))
     ELSE IF ~isAdminOrGroupLeader(user, Str(g)) THEN
       Reject(Response("CreateSubgroup", a, 403, "Unauthorized", g, None, None, None, 0))
     ELSE
       SubgroupSaveAndReply("CreateSubgroup", a, g, leaders, user.church)

\* routes/group.js POST /api/groups/:id/subgroups
CreateGroupSubgroup(a, g, leaders) ==
  LET user == ReqUser(a) IN
  /\ user.issued
  /\ IF ~authorizeGroupAccess(user, Str(g)) THEN
       Reject(Response("CreateGroupSubgroup", a, 403, "Unauthorized", g, None,
                       None, None, 0))
     ELSE
       SubgroupSaveAndReply("CreateGroupSubgroup", a, g, leaders, user.church)

\* routes/subgroup.js PUT /api/subgroups/:id
\* leadersArg: [given |-> whether the body has leaders, list |-> it]
UpdateSubgroup(a, sg, leadersArg) ==
  LET user == ReqUser(a) IN
  /\ user.issued
  /\ IF ~authorizeSubgroupAccess(user, Str(sg)).ok THEN
       Reject(Response("UpdateSubgroup", a, 403, "Unauthorized", None, sg, None, None, 0))
     ELSE IF ~(SubgroupFindById(sg) /\ ChurchMatches(subgroups[sg].church, user.church)) THEN
       Reject(Response("UpdateSubgroup", a, 404, "NotFound", None, sg, None, None, 0))
     ELSE
       /\ subgroups' = [subgroups EXCEPT
                          ![sg].leaders = IF leadersArg.given THEN leadersArg.list ELSE @]
       /\ UNCHANGED <<persons, users, groups, members, nextId>>
       /\ Reply(Response("UpdateSubgroup", a, 200, "none", None, sg, None, None,
                         IF leadersArg.given THEN 1 ELSE 0))

\* routes/churchUsers.js PUT /api/church-users/:id with a body that holds
\* subgroupLeaderships: findByIdAndUpdate(id, body)
UpdateUserSubgroups(a, u, list) ==
  LET actor == ReqUser(a) IN
  /\ actor.issued
  /\ IF ~users[u].live THEN
       Reject([Response("UpdateUser", a, 404, "NotFound", None, None, None, None, 0)
                 EXCEPT !.u = u])
     ELSE
       /\ users' = [users EXCEPT ![u].subgroupLeaderships = list]
       /\ UNCHANGED <<persons, groups, subgroups, members, nextId>>
       /\ Reply([Response("UpdateUser", a, 200, "none", None, None, None, None, 1)
                   EXCEPT !.u = u])

\* ------------------------------------------------- runs, write by write
\* The cascade and leadership handlers await one store write after the
\* other; an await may reject, which ends the run in the catch block with the
\* earlier writes applied.  reqs holds the run in progress or just ended:
\* pc counts its writes done, start is the store the first attempt started
\* in and expect the store an uninterrupted run yields from it.
StoreNow ==
  [persons |-> persons, users |-> users, groups |-> groups,
   subgroups |-> subgroups, members |-> members, nextId |-> nextId]

RunOps == {"DeleteGroup", "DeleteSubgroup", "AssignGroupLeadership",
           "RemoveGroupLeadership"}

\* number of awaited store writes of each handler
RunWrites(op) ==
  CASE op = "DeleteGroup" -> 4
    [] op = "DeleteSubgroup" -> 3
    [] op = "AssignGroupLeadership" -> 2
    [] op = "RemoveGroupLeadership" -> 2

\* bug: the Group record is deleted first
DeleteGroupWrite_GroupFirst(st, i, g) ==
  CASE i = 1 -> [st EXCEPT !.groups = GroupDeleteOne(@, g)]
    [] i = 2 -> [st EXCEPT !.subgroups = SubgroupDeleteMany(@, g)]
    [] i = 3 -> [st EXCEPT !.members = GroupMemberDeleteMany(@, g)]
    [] i = 4 -> [st EXCEPT !.users = ChurchUserPullGroup(@, g)]

\* routes/group.js DELETE /api/groups/:id, its i-th write
DeleteGroupWrite(st, i, g) ==
  CASE i = 1 -> [st EXCEPT !.subgroups = SubgroupDeleteMany(@, g)]
    [] i = 2 -> [st EXCEPT !.members = GroupMemberDeleteMany(@, g)]
    [] i = 3 -> [st EXCEPT !.users = ChurchUserPullGroup(@, g)]
    [] i = 4 -> [st EXCEPT !.groups = GroupDeleteOne(@, g)]

\* bug: the Subgroup record is deleted first
DeleteSubgroupWrite_SubgroupFirst(st, i, sg) ==
  CASE i = 1 -> [st EXCEPT !.subgroups = SubgroupDeleteOne(@, sg)]
    [] i = 2 -> [st EXCEPT !.members = GroupMemberUnsetSubgroup(@, sg)]
    [] i = 3 -> [st EXCEPT !.users = ChurchUserPullSubgroup(@, sg)]

\* routes/subgroup.js DELETE /api/subgroups/:id, its i-th write
DeleteSubgroupWrite(st, i, sg) ==
  CASE i = 1 -> [st EXCEPT !.members = GroupMemberUnsetSubgroup(@, sg)]
    [] i = 2 -> [st EXCEPT !.users = ChurchUserPullSubgroup(@, sg)]
    [] i = 3 -> [st EXCEPT !.subgroups = SubgroupDeleteOne(@, sg)]

\* assign-group-leadership: group.save() after the guarded push, then
\* user.addGroupLeadership(groupId)
AssignGroupLeadershipWrite(st, i, u, g) ==
  CASE i = 1 ->
         [st EXCEPT !.groups[g].leaders =
            IF MongooseIncludes(@, Oid(st.users[u].person))
              THEN @ ELSE Append(@, st.users[u].person)]
    [] i = 2 -> [st EXCEPT !.users[u] = addGroupLeadership(@, Str(g))]

\* remove-group-leadership: group.save() of the filtered leaders, then
\* user.save() of the filtered groupLeaderships
RemoveGroupLeadershipWrite(st, i, u, g) ==
  CASE i = 1 ->
         [st EXCEPT !.groups[g].leaders = SeqFilterOut(@, st.users[u].person)]
    [] i = 2 -> [st EXCEPT !.users[u].groupLeaderships = SeqFilterOut(@, g)]

RunWrite(st, op, i, u, t) ==
  CASE op = "DeleteGroup" -> DeleteGroupWrite(st, i, t)
    [] op = "DeleteSubgroup" -> DeleteSubgroupWrite(st, i, t)
    [] op = "AssignGroupLeadership" -> AssignGroupLeadershipWrite(st, i, u, t)
    [] op = "RemoveGroupLeadership" -> RemoveGroupLeadershipWrite(st, i, u, t)

\* the store after writes from + 1 .. RunWrites(op) of the handler
RECURSIVE RunToCompletion(_, _, _, _, _)
RunToCompletion(st, op, from, u, t) ==
  IF from >= RunWrites(op) THEN st
  ELSE RunToCompletion(RunWrite(st, op, from + 1, u, t), op, from + 1, u, t)

\* the handler's answer before its first write: 200 when it goes on
RunChecks(user, op, u, t) ==
  CASE op = "DeleteGroup" ->
         IF ~hasPermission(user.role, "manage_groups") THEN 403
         ELSE IF ~GroupFindOne(t, user.church) THEN 404 ELSE 200
    [] op = "DeleteSubgroup" ->
         IF ~SubgroupFindById(t) THEN 404
         ELSE IF ~isAdminOrGroupLeader(user, Str(subgroups[t].parentGroup))
           THEN 403 ELSE 200
    [] op \in {"AssignGroupLeadership", "RemoveGroupLeadership"} ->
         IF ~hasPermission(user.role, "manage_groups") THEN 403
         ELSE IF ~users[u].live \/ ~GroupFindById(t) THEN 404 ELSE 200

\* the catch block's status
RunCatchStatus(op) ==
  IF op \in {"DeleteGroup", "DeleteSubgroup"} THEN 500 ELSE 400

RunResponse(op, a, status, u, t) ==
  [Response(op, a, status,
            CASE status = 200 -> "none" [] status = 403 -> "Unauthorized"
              [] status = 404 -> "NotFound" [] OTHER -> "ServerError",
            IF op = "DeleteSubgroup" THEN None ELSE t,
            IF op = "DeleteSubgroup" THEN t ELSE None, None, None, 0)
     EXCEPT !.u = u]

Run(op, a, u, t, pc, phase, failedAt, retried, start, expect) ==
  [op |-> op, actor |-> a, u |-> u, t |-> t, pc |-> pc, phase |-> phase,
   failedAt |-> failedAt, retried |-> retried, start |-> start,
   expect |-> expect]

\* a request arrives while no run is in progress or waiting for its retry
RunBegin(op, a, u, t) ==
  LET user == ReqUser(a)
      status == RunChecks(user, op, u, t)
  IN
  /\ user.issued
  /\ \A r \in reqs : r.phase = "done"
  /\ UNCHANGED <<store, tokens>>
  /\ IF status # 200 THEN
       /\ reqs' = {}
       /\ last' = RunResponse(op, a, status, u, t)
     ELSE
       /\ op = "AssignGroupLeadership" =>
            /\ users[u].person \in Range(groups[t].leaders)
                 \/ Len(groups[t].leaders) < MaxLeaders
            /\ t \in Range(users[u].groupLeaderships)
                 \/ Len(users[u].groupLeaderships) < MaxLeaders
       /\ reqs' = {Run(op, a, u, t, 0, "running", 0, FALSE, StoreNow,
                       RunToCompletion(StoreNow, op, 0, u, t))}
       /\ UNCHANGED last

\* the next awaited write of the run succeeds
RunStep(r) ==
  LET st == RunWrite(StoreNow, r.op, r.pc + 1, r.u, r.t)
      done == r.pc + 1 = RunWrites(r.op)
  IN
  /\ r \in reqs
  /\ r.phase = "running"
  /\ persons' = st.persons
  /\ users' = st.users
  /\ groups' = st.groups
  /\ subgroups' = st.subgroups
  /\ members' = st.members
  /\ nextId' = st.nextId
  /\ UNCHANGED eventStore
  /\ reqs' = {[r EXCEPT !.pc = @ + 1,
                        !.phase = IF done THEN "done" ELSE "running"]}
  /\ last' = IF done THEN RunResponse(r.op, r.actor, 200, r.u, r.t) ELSE last
  /\ UNCHANGED tokens

\* the next awaited write of the run rejects: the catch block answers
RunFail(r) ==
  /\ r \in reqs
  /\ r.phase = "running"
  /\ ~r.retried
  /\ reqs' = {[r EXCEPT !.phase = "failed", !.failedAt = r.pc]}
  /\ last' = RunResponse(r.op, r.actor, RunCatchStatus(r.op), r.u, r.t)
  /\ UNCHANGED <<store, tokens>>

\* the caller sends the failed request again, before any other request
RunRetry(r) ==
  LET user == ReqUser(r.actor)
      status == RunChecks(user, r.op, r.u, r.t)
  IN
  /\ r \in reqs
  /\ r.phase = "failed"
  /\ UNCHANGED <<store, tokens>>
  /\ IF status # 200 THEN
       /\ reqs' = {[r EXCEPT !.phase = "done", !.retried = TRUE, !.pc = 0]}
       /\ last' = RunResponse(r.op, r.actor, status, r.u, r.t)
     ELSE
       /\ reqs' = {[r EXCEPT !.phase = "running", !.retried = TRUE, !.pc = 0]}
       /\ UNCHANGED last

\* -------------------------------------------------- interleaved requests
\* Requests whose handlers are suspended at an await while others run.  A
\* request in reqs: its route, its actor, the :id of its path (t), its
\* :personId (p), the GroupMember document its handler holds (m), the number
\* of store writes it has done (pc) and whether it has been answered.
RaceRequest(op, a, t, p, m, pc, phase) ==
  [op |-> op, actor |-> a, t |-> t, p |-> p, m |-> m, pc |-> pc, phase |-> phase]

RaceInProgress == {r \in reqs : r.phase = "running"}

\* DELETE /api/groups/:id or DELETE /api/subgroups/:id up to its first write
RaceDeleteBegin(op, a, t) ==
  LET user == ReqUser(a)
      status == RunChecks(user, op, None, t)
  IN
  /\ user.issued
  /\ Cardinality(reqs) < MaxRequests
  /\ \A r \in reqs : ~(r.op = op /\ r.t = t)
  /\ UNCHANGED <<store, tokens>>
  /\ IF status # 200 THEN
       /\ reqs' = reqs \cup {RaceRequest(op, a, t, None, None, 0, "done")}
       /\ last' = RunResponse(op, a, status, None, t)
     ELSE
       /\ reqs' = reqs \cup {RaceRequest(op, a, t, None, None, 0, "running")}
       /\ UNCHANGED last

\* the next awaited write of a deletion; after the last one, the answer
RaceDeleteStep(r) ==
  LET st == RunWrite(StoreNow, r.op, r.pc + 1, None, r.t)
      done == r.pc + 1 = RunWrites(r.op)
  IN
  /\ r \in reqs
  /\ r.op \in {"DeleteGroup", "DeleteSubgroup"}
  /\ r.phase = "running"
  /\ persons' = st.persons
  /\ users' = st.users
  /\ groups' = st.groups
  /\ subgroups' = st.subgroups
  /\ members' = st.members
  /\ nextId' = st.nextId
  /\ UNCHANGED eventStore
  /\ reqs' = (reqs \ {r}) \cup
               {[r EXCEPT !.pc = @ + 1,
                          !.phase = IF done THEN "done" ELSE "running"]}
  /\ last' = IF done THEN RunResponse(r.op, r.actor, 200, None, r.t) ELSE last
  /\ UNCHANGED tokens

\* POST /api/subgroups/:id/members/:personId up to the await of
\* groupMember.save(): the handler holds the document it read
AddToSubgroupBegin(a, sg, p) ==
  LET user == ReqUser(a)
      found == IF SubgroupFindById(sg)
                 THEN ParentGroupMember(members, p, subgroups[sg].parentGroup)
                 ELSE {}
      Done == RaceRequest("AddToSubgroup", a, sg, p, None, 0, "done")
  IN
  /\ user.issued
  /\ Cardinality(reqs) < MaxRequests
  /\ \A r \in reqs : ~(r.op = "AddToSubgroup" /\ r.t = sg /\ r.p = p)
  /\ UNCHANGED <<store, tokens>>
  /\ IF ~authorizeSubgroupAccess(user, Str(sg)).ok THEN
       /\ reqs' = reqs \cup {Done}
       /\ last' = Response("AddToSubgroup", a, 403, "Unauthorized", None, sg, None, p, 0)
     ELSE IF ~SubgroupFindById(sg) THEN
       /\ reqs' = reqs \cup {Done}
       /\ last' = Response("AddToSubgroup", a, 404, "NotFound", None, sg, None, p, 0)
     ELSE IF found = {} THEN
       /\ reqs' = reqs \cup {Done}
       /\ last' = Response("AddToSubgroup", a, 400, "InvalidSubgroupAssignment",
                           subgroups[sg].parentGroup, sg, None, p, 0)
     ELSE
       /\ reqs' = reqs \cup
                    {RaceRequest("AddToSubgroup", a, sg, p,
                                 CHOOSE x \in found : TRUE, 0, "running")}
       /\ UNCHANGED last

\* groupMember.save() and the answer: an update of the document by _id.  When
\* the document was deleted meanwhile nothing is stored; save() then resolves
\* or rejects with DocumentNotFoundError, after the Mongoose version.
AddToSubgroupSave(r, rejects) ==
  /\ r \in reqs
  /\ r.op = "AddToSubgroup"
  /\ r.phase = "running"
  /\ reqs' = (reqs \ {r}) \cup {[r EXCEPT !.pc = 1, !.phase = "done"]}
  /\ UNCHANGED tokens
  /\ IF members[r.m].live THEN
       /\ members' = [members EXCEPT ![r.m].subgroup = r.t]
       /\ UNCHANGED <<persons, users, groups, subgroups, nextId, eventStore>>
       /\ last' = Response("AddToSubgroup", r.actor, 200, "none",
                           members[r.m].group, r.t, r.m, r.p, 1)
     ELSE
       /\ UNCHANGED store
       /\ last' = Response("AddToSubgroup", r.actor,
                           IF rejects THEN 500 ELSE 200,
                           IF rejects THEN "ServerError" ELSE "none",
                           None, r.t, r.m, r.p, 0)

\* ------------------------------------------------------ event check-in
\* Attendance.findOne({ eventId, personId }): the matching documents
AttendanceOfPair(e, p) ==
  {i \in DOMAIN attendances :
     attendances[i].eventId = e /\ attendances[i].personId = p}

\* event.checkInInCharge.some(charge => charge._id.toString() ===
\* req.user._id.toString()): charge._id is the id Mongoose gave the
\* subdocument { userId, name }, never the id of an account
isCheckInInCharge(event, userId) == FALSE

\* a check-in request suspended at an await: pc is the write it waits for
CheckInRequest(id, a, e, p, pc) ==
  [id |-> id, actor |-> a, e |-> e, p |-> p, pc |-> pc]

CheckInResponse(a, status, err, e, p) ==
  [Response("CheckIn", a, status, err, None, None, None, p, 0) EXCEPT !.k = e]

\* routes/event.js POST /api/events/:id/check-in up to the await of
\* attendance.save()
CheckInBegin(a, e, p) ==
  LET user == ReqUser(a)
      id == CHOOSE i \in FreeRequestIds : \A j \in FreeRequestIds : i <= j
  IN
  /\ user.issued
  /\ FreeRequestIds # {}
  /\ UNCHANGED <<store, tokens>>
  /\ IF ~events[e].live THEN
       /\ last' = CheckInResponse(a, 404, "NotFound", e, p)
       /\ UNCHANGED reqs
     ELSE IF ~(user.role = "admin" \/ isCheckInInCharge(events[e], user.uid)) THEN
       /\ last' = CheckInResponse(a, 403, "Unauthorized", e, p)
       /\ UNCHANGED reqs
     ELSE IF p \notin persons THEN
       /\ last' = CheckInResponse(a, 404, "NotFound", e, p)
       /\ UNCHANGED reqs
     ELSE IF AttendanceOfPair(e, p) # {} THEN
       /\ last' = CheckInResponse(a, 400, "AlreadyCheckedIn", e, p)
       /\ UNCHANGED reqs
     ELSE
       /\ reqs' = reqs \cup {CheckInRequest(id, a, e, p, "save")}
       /\ UNCHANGED last

\* attendance.save(): an insert; the collection has no unique index
CheckInSave(r) ==
  /\ r \in reqs
  /\ r.pc = "save"
  /\ Len(attendances) < MaxCheckIns
  /\ attendances' = Append(attendances, [eventId |-> r.e, personId |-> r.p])
  /\ reqs' = (reqs \ {r}) \cup {[r EXCEPT !.pc = "push"]}
  /\ UNCHANGED <<persons, users, groups, subgroups, members, nextId, events,
                 tokens, last>>

\* event.attendees.push({ person, ... }); event.save(): a $push, and the answer
CheckInPush(r) ==
  /\ r \in reqs
  /\ r.pc = "push"
  /\ events' = [events EXCEPT ![r.e].attendees = Append(@, r.p)]
  /\ reqs' = reqs \ {r}
  /\ last' = CheckInResponse(r.actor, 200, "none", r.e, r.p)
  /\ UNCHANGED <<persons, users, groups, subgroups, members, nextId, attendances,
                 tokens>>

\* ----------------------------------------------------------- church users
\* models/churchUser.js pre('save'): permissions follow role when role is set
\* routes/churchUsers.js POST /api/church-users: new ChurchUser(req.body).save()
CreateUser(a, person, role, groupLeaderships) ==
  LET actor == ReqUser(a)
      u == nextId.user
  IN
  /\ actor.issued
  /\ u \in UserIds
  /\ users' = [users EXCEPT ![u] =
                 [live |-> TRUE, person |-> person,
                  role |-> IF role = Undefined THEN "user" ELSE role,
                  permissions |-> IF role = Undefined THEN {}
                                  ELSE ROLE_PERMISSIONS(role),
                  groupLeaderships |-> groupLeaderships,
                  subgroupLeaderships |-> <<>>]]
  /\ nextId' = [nextId EXCEPT !.user = @ + 1]
  /\ UNCHANGED <<persons, groups, subgroups, members>>
  /\ Reply([Response("CreateUser", a, 201, "none", None, None, None, person, 0)
              EXCEPT !.u = u])

\* routes/churchUsers.js PUT /api/church-users/:id: findByIdAndUpdate(id, body)
\* glArg: [given |-> whether the body has groupLeaderships, list |-> it]
UpdateUser(a, u, glArg, role) ==
  LET actor == ReqUser(a) IN
  /\ actor.issued
  /\ IF ~users[u].live THEN
       Reject([Response("UpdateUser", a, 404, "NotFound", None, None, None, None, 0)
                 EXCEPT !.u = u])
     ELSE
       /\ users' = [users EXCEPT
                      ![u].groupLeaderships = IF glArg.given THEN glArg.list ELSE @,
                      ![u].role = IF role = Undefined THEN @ ELSE role]
       /\ UNCHANGED <<persons, groups, subgroups, members, nextId>>
       /\ Reply([Response("UpdateUser", a, 200, "none", None, None, None, None, 0)
                   EXCEPT !.u = u])

\* routes/churchUsers.js DELETE /api/church-users/:id
DeleteUser(a, u) ==
  LET actor == ReqUser(a) IN
  /\ actor.issued
  /\ IF ~users[u].live THEN
       Reject([Response("DeleteUser", a, 404, "NotFound", None, None, None, None, 0)
                 EXCEPT !.u = u])
     ELSE
       /\ users' = [users EXCEPT ![u] = NoUser]
       /\ UNCHANGED <<persons, groups, subgroups, members, nextId>>
       /\ Reply([Response("DeleteUser", a, 200, "none", None, None, None, None, 0)
                   EXCEPT !.u = u])

\* routes/churchUsers.js PUT /api/church-users/update-permissions/:id:
\* findByIdAndUpdate(id, { $set: { permissions: req.body.permissions } })
UpdatePermissions(a, u, permissions) ==
  LET actor == ReqUser(a) IN
  /\ actor.issued
  /\ IF ~users[u].live THEN
       Reject([Response("UpdatePermissions", a, 404, "NotFound", None, None, None,
                        None, 0) EXCEPT !.u = u])
     ELSE
       /\ users' = [users EXCEPT ![u].permissions = permissions]
       /\ UNCHANGED <<persons, groups, subgroups, members, nextId>>
       /\ Reply([Response("UpdatePermissions", a, 200, "none", None, None, None,
                          None, 1) EXCEPT !.u = u])

\* routes/auth.js GET /api/auth/validate-group-permission/:groupId
ValidateGroupPermission(a, g) ==
  LET decoded == tokens[a] IN
  /\ decoded.issued
  /\ Reject(Response("ValidateGroupPermission", a, 200, "none", g, None, None, None,
                     IF validateGroupPermission(decoded, Str(g)) THEN 1 ELSE 0))

\* --------------------------------------------------------- specifications
SubgroupArgs == {[given |-> FALSE, id |-> None]}
                  \cup [given : {TRUE}, id : {None} \cup SubgroupIds]

\* Cascade: deletion of groups, subgroups and persons over any stored
\* membership (member updates produce the memberships the seeds lack).
Next ==
  \/ \E u \in SeedUserIds : Login(u)
  \/ \E a \in SeedUserIds, g \in GroupIds : DeleteGroup(a, g)
  \/ \E a \in SeedUserIds, s \in SubgroupIds : DeleteSubgroup(a, s)
  \/ \E a \in SeedUserIds, p \in PersonIds : DeletePerson(a, p)
  \/ \E a \in SeedUserIds, m \in MemberIds, sgArg \in SubgroupArgs :
       UpdateMember(a, m, sgArg, Undefined)

Spec == Init /\ [][Next]_vars

\* Membership: adding, updating, removing members and subgroup assignment.
NextMembership ==
  \/ \E u \in SeedUserIds : Login(u)
  \/ \E a \in SeedUserIds, g \in GroupIds, p \in PersonIds,
        sg \in {None} \cup SubgroupIds :
       AddMember(a, g, p, sg, Undefined)
  \/ \E a \in SeedUserIds, m \in MemberIds, sgArg \in SubgroupArgs :
       UpdateMember(a, m, sgArg, Undefined)
  \/ \E a \in SeedUserIds, m \in MemberIds : RemoveMember(a, m)
  \/ \E a \in SeedUserIds, s \in SubgroupIds, p \in PersonIds : AddToSubgroup(a, s, p)
  \/ \E a \in SeedUserIds, s \in SubgroupIds, p \in PersonIds :
       RemoveFromSubgroup(a, s, p)
  \/ \E a \in SeedUserIds, g \in GroupIds : ValidateGroupPermission(a, g)

SpecMembership == Init /\ [][NextMembership]_vars

\* Subgroup access: the operations guarded by authorizeSubgroupAccess, and the
\* deletions that change what the check reads.
NextSubgroupAccess ==
  \/ \E u \in SeedUserIds : Login(u)
  \/ \E a \in SeedUserIds, s \in SubgroupIds, p \in PersonIds : AddToSubgroup(a, s, p)
  \/ \E a \in SeedUserIds, s \in SubgroupIds, p \in PersonIds :
       RemoveFromSubgroup(a, s, p)
  \/ \E a \in SeedUserIds, s \in SubgroupIds : DeleteSubgroup(a, s)
  \/ \E a \in SeedUserIds, g \in GroupIds : DeleteGroup(a, g)

SpecSubgroupAccess == Init /\ [][NextSubgroupAccess]_vars

\* Leadership: the operations that write Group.leaders or
\* ChurchUser.groupLeaderships, over a store without memberships.
InitLeadership ==
  \E seed \in Seeds :
    /\ persons = PersonIds
    /\ users = SeedUsers(seed.gl, seed.sl)
    /\ groups = SeedGroups(seed.gl)
    /\ subgroups = SeedSubgroups(seed.sl, seed.parent2)
    /\ members = [m \in MemberIds |-> NoMember]
    /\ nextId = [group |-> 3, subgroup |-> 3, member |-> 4, user |-> 3]
    /\ tokens = [u \in UserIds |-> NoToken]
    /\ events = SeedEvents
    /\ attendances = <<>>
    /\ reqs = {}
    /\ last = NoResponse

LeadersArgs ==
  {[given |-> FALSE, list |-> <<>>]}
    \cup [given : {TRUE}, list : {<<>>, <<2>>, <<2, 2>>}]
LeadershipArgs == {[given |-> FALSE, list |-> <<>>]} \cup [given : {TRUE}, list : {<<>>, <<1>>}]

\* The administrator assigns and removes leaderships of the seeded groups,
\* between group and user updates that write one side only.
NextLeadership ==
  \/ \E u \in {1} : Login(u)
  \/ \E a \in {1}, g \in SeedGroupIds, leadersArg \in LeadersArgs :
       UpdateGroup(a, g, leadersArg)
  \/ \E a \in {1}, u \in SeedUserIds, g \in SeedGroupIds : AssignGroupLeadership(a, u, g)
  \/ \E a \in {1}, u \in SeedUserIds, g \in SeedGroupIds : RemoveGroupLeadership(a, u, g)
  \/ \E a \in {1}, u \in {2}, glArg \in LeadershipArgs :
       UpdateUser(a, u, glArg, Undefined)

SpecLeadership == InitLeadership /\ [][NextLeadership]_vars

\* Group and user administration: creation, update and deletion of groups
\* and church users by any logged-in actor.
NextGroupLeaders ==
  \/ \E u \in SeedUserIds : Login(u)
  \/ \E a \in SeedUserIds, leaders \in {<<>>, <<2>>} : CreateGroup(a, leaders)
  \/ \E a \in SeedUserIds, g \in GroupIds, leadersArg \in LeadersArgs :
       UpdateGroup(a, g, leadersArg)
  \/ \E a \in SeedUserIds, g \in GroupIds : DeleteGroup(a, g)
  \/ \E a \in SeedUserIds : CreateUser(a, 2, Undefined, <<1>>)
  \/ \E a \in SeedUserIds, u \in UserIds \ {1} : DeleteUser(a, u)

SpecGroupLeaders == InitLeadership /\ [][NextGroupLeaders]_vars

\* Interleaved AddMember requests: each request is two steps, and other
\* requests run between them.
NextAddMemberRace ==
  \/ \E u \in SeedUserIds : Login(u)
  \/ \E a \in SeedUserIds, g \in SeedGroupIds, p \in PersonIds :
       AddMemberBegin(a, g, p, None, Undefined)
  \/ \E r \in reqs : AddMemberSave(r)

SpecAddMemberRace == Init /\ [][NextAddMemberRace]_vars

\* Attendance: a store whose members already have attendance entries.
SeedAttendance ==
  {<<>>,
   <<[date |-> 2, status |-> "present", notes |-> ""]>>,
   <<[date |-> 4, status |-> "absent", notes |-> ""],
     [date |-> 2, status |-> "present", notes |-> ""]>>}

InitAttendance ==
  \E seed \in Seeds, att \in [{1, 2} -> SeedAttendance] :
    /\ persons = PersonIds
    /\ users = SeedUsers(seed.gl, seed.sl)
    /\ groups = SeedGroups(seed.gl)
    /\ subgroups = SeedSubgroups(seed.sl, seed.parent2)
    /\ members =
         [m \in MemberIds |->
            IF m \in SeedMemberIds
              THEN [live |-> TRUE, person |-> SeedPerson(m), group |-> SeedGroup(m),
                    subgroup |-> IF m = 1 THEN 1
                                 ELSE IF m = 3 /\ seed.parent2 = 2 THEN 2
                                 ELSE None,
                    role |-> "member",
                    attendance |-> IF m = 3 THEN att[1] ELSE att[m],
                    church |-> Church]
              ELSE NoMember]
    /\ nextId = [group |-> 3, subgroup |-> 3, member |-> 4, user |-> 3]
    /\ tokens = [u \in UserIds |-> NoToken]
    /\ events = SeedEvents
    /\ attendances = <<>>
    /\ reqs = {}
    /\ last = NoResponse

\* request bodies: one record, the same member twice, two members
AttendanceData ==
  {data \in UNION {[1..n -> [memberId : SeedMemberIds, status : {"present"}]] :
                     n \in 1..MaxBatch} :
     /\ data[1].memberId = 1
     /\ Len(data) <= 2}

RecordDates == {d \in DateInputs : ~d.noon}

NextAttendance ==
  \/ \E u \in SeedUserIds : Login(u)
  \/ \E a \in SeedUserIds, g \in SeedGroupIds, date \in RecordDates,
        data \in AttendanceData :
       RecordGroupAttendance(a, g, date, data)
  \/ \E a \in SeedUserIds, sg \in SubgroupIds, date \in RecordDates,
        data \in AttendanceData :
       RecordSubgroupAttendance(a, sg, date, data)
  \/ \E a \in SeedUserIds, g \in SeedGroupIds, startDate \in RecordDates,
        endDate \in DateInputs :
       GetGroupAttendance(a, g, startDate, endDate)
  \/ \E a \in SeedUserIds, sg \in SubgroupIds, startDate \in RecordDates,
        endDate \in DateInputs :
       GetSubgroupAttendance(a, sg, startDate, endDate)

SpecAttendance == InitAttendance /\ [][NextAttendance]_vars

\* Subgroup creation through both routes, and the deletions.
NextSubgroupCreation ==
  \/ \E u \in SeedUserIds : Login(u)
  \/ \E a \in SeedUserIds, g \in GroupIds, leaders \in {<<>>, <<2>>} :
       CreateSubgroup(a, g, leaders)
  \/ \E a \in SeedUserIds, g \in GroupIds, leaders \in {<<>>, <<2>>} :
       CreateGroupSubgroup(a, g, leaders)
  \/ \E a \in SeedUserIds, g \in GroupIds : DeleteGroup(a, g)
  \/ \E a \in SeedUserIds, sg \in SubgroupIds : DeleteSubgroup(a, sg)

SpecSubgroupCreation == Init /\ [][NextSubgroupCreation]_vars

\* Membership creation next to the deletions of what a membership refers to.
NextMemberRefs ==
  \/ \E u \in SeedUserIds : Login(u)
  \/ \E a \in SeedUserIds, g \in GroupIds, p \in PersonIds :
       AddMember(a, g, p, None, Undefined)
  \/ \E a \in SeedUserIds, g \in GroupIds : DeleteGroup(a, g)
  \/ \E a \in SeedUserIds, p \in PersonIds : DeletePerson(a, p)

SpecMemberRefs == Init /\ [][NextMemberRefs]_vars

\* Subgroup leadership: the routes that write Subgroup.leaders or
\* ChurchUser.subgroupLeaderships.
NextSubgroupLeaders ==
  \/ \E u \in SeedUserIds : Login(u)
  \/ \E a \in SeedUserIds, g \in SeedGroupIds, leaders \in {<<>>, <<2>>} :
       CreateSubgroup(a, g, leaders)
  \/ \E a \in SeedUserIds, sg \in SubgroupIds, leadersArg \in LeadersArgs :
       UpdateSubgroup(a, sg, leadersArg)
  \/ \E a \in SeedUserIds, sg \in SubgroupIds : DeleteSubgroup(a, sg)
  \/ \E a \in SeedUserIds, u \in UserIds, list \in {<<>>, <<1>>, <<2>>} :
       UpdateUserSubgroups(a, u, list)

SpecSubgroupLeaders == InitLeadership /\ [][NextSubgroupLeaders]_vars

\* Runs that may fail between two writes and are sent again.  Every seeded
\* member is stored: member 1 in subgroup 1, member 3 in subgroup 2 when that
\* subgroup belongs to its group.
InitRetry ==
  \E seed \in Seeds :
    /\ persons = PersonIds
    /\ users = SeedUsers(seed.gl, seed.sl)
    /\ groups = SeedGroups(seed.gl)
    /\ subgroups = SeedSubgroups(seed.sl, seed.parent2)
    /\ members =
         [m \in MemberIds |->
            IF m \in SeedMemberIds
              THEN [live |-> TRUE, person |-> SeedPerson(m),
                    group |-> SeedGroup(m),
                    subgroup |-> IF m = 1 THEN 1
                                 ELSE IF m = 3 /\ seed.parent2 = 2 THEN 2
                                 ELSE None,
                    role |-> "member", attendance |-> <<>>, church |-> Church]
              ELSE NoMember]
    /\ nextId = [group |-> 3, subgroup |-> 3, member |-> 4, user |-> 3]
    /\ tokens = [u \in UserIds |-> NoToken]
    /\ events = SeedEvents
    /\ attendances = <<>>
    /\ reqs = {}
    /\ last = NoResponse

NextRetry ==
  \/ Login(1)
  \/ \E g \in SeedGroupIds : RunBegin("DeleteGroup", 1, None, g)
  \/ \E sg \in SubgroupIds : RunBegin("DeleteSubgroup", 1, None, sg)
  \/ \E g \in SeedGroupIds : RunBegin("AssignGroupLeadership", 1, 2, g)
  \/ \E g \in SeedGroupIds : RunBegin("RemoveGroupLeadership", 1, 2, g)
  \/ \E r \in reqs : RunStep(r)
  \/ \E r \in reqs : RunFail(r)
  \/ \E r \in reqs : RunRetry(r)

SpecRetry == InitRetry /\ [][NextRetry]_vars

\* Check-in requests, interleaved at their awaits.
NextCheckIn ==
  \/ \E u \in SeedUserIds : Login(u)
  \/ \E a \in SeedUserIds, e \in EventIds, p \in PersonIds : CheckInBegin(a, e, p)
  \/ \E r \in reqs : CheckInSave(r)
  \/ \E r \in reqs : CheckInPush(r)

SpecCheckIn == InitLeadership /\ [][NextCheckIn]_vars

\* Account administration: the routes that write role or permissions.
RoleArgs == {"group_leader", "user"}

PermissionArgs == {ROLE_PERMISSIONS(role) : role \in RoleArgs} \cup {{}}

\* the administrator creates, updates and deletes the other accounts
NextUserPermissions ==
  \/ Login(1)
  \/ \E role \in RoleArgs : CreateUser(1, 2, role, <<>>)
  \/ \E u \in UserIds \ {1}, role \in RoleArgs \cup {Undefined} :
       UpdateUser(1, u, [given |-> FALSE, list |-> <<>>], role)
  \/ \E u \in UserIds \ {1}, permissions \in PermissionArgs :
       UpdatePermissions(1, u, permissions)
  \/ \E u \in UserIds \ {1} : DeleteUser(1, u)

SpecUserPermissions == InitLeadership /\ [][NextUserPermissions]_vars

\* Leaderships that end while the leader still holds a token: the
\* administrator assigns and removes account 2's leaderships and deletes
\* groups, account 2 sends mutating requests with the token of its last login.
NextStaleToken ==
  \/ \E u \in SeedUserIds : Login(u)
  \/ \E g \in SeedGroupIds : AssignGroupLeadership(1, 2, g)
  \/ \E g \in SeedGroupIds : RemoveGroupLeadership(1, 2, g)
  \/ \E a \in SeedUserIds, g \in SeedGroupIds : DeleteGroup(a, g)
  \/ \E g \in SeedGroupIds, leadersArg \in LeadersArgs : UpdateGroup(2, g, leadersArg)
  \/ \E g \in SeedGroupIds, p \in PersonIds : AddMember(2, g, p, None, Undefined)

SpecStaleToken == InitRetry /\ [][NextStaleToken]_vars

\* Deletions interleaved, write by write, with the requests that add
\* dependents.  POST /api/groups/:id/members and the subgroup creation routes
\* read, then save once, and that save fails validation before it reaches the
\* store: they are single steps between the writes of a deletion.
NextDeleteRace ==
  \/ Login(1)
  \/ \E g \in SeedGroupIds : RaceDeleteBegin("DeleteGroup", 1, g)
  \/ \E sg \in SubgroupIds : RaceDeleteBegin("DeleteSubgroup", 1, sg)
  \/ \E r \in reqs : RaceDeleteStep(r)
  \/ \E sg \in SubgroupIds, p \in PersonIds : AddToSubgroupBegin(1, sg, p)
  \/ \E r \in reqs, rejects \in BOOLEAN : AddToSubgroupSave(r, rejects)
  \/ \E g \in SeedGroupIds, p \in PersonIds : AddMember(1, g, p, None, Undefined)
  \/ \E g \in SeedGroupIds : CreateSubgroup(1, g, <<>>)
  \/ \E g \in SeedGroupIds : CreateGroupSubgroup(1, g, <<>>)

SpecDeleteRace == InitRetry /\ [][NextDeleteRace]_vars

\* ------------------------------------------------------------ properties
\* C1: right after a DeleteGroup(G) that completed (status 200), no Subgroup
\* has parentGroup = G and no GroupMember has group = G.
C1_DeleteGroupLeavesNoDependents ==
  (last.op = "DeleteGroup" /\ last.status = 200) =>
    /\ SubgroupsOfGroup(subgroups, last.g) = {}
    /\ MembersOfGroup(members, last.g) = {}

\* a completed DeleteGroup of a group that had members and subgroups
C1_Witness ==
  last.op = "DeleteGroup" /\ last.status = 200 /\ last.n >= 1 /\ last.k >= 1

\* C2: a completed DeleteSubgroup(S) deletes no GroupMember: every record that
\* referenced S is the same record with subgroup cleared, every other record
\* is unchanged.
C2_DeleteSubgroupKeepsMembers ==
  [][(last'.op = "DeleteSubgroup" /\ last'.status = 200) =>
       \A m \in MemberIds :
         members'[m] =
           IF members[m].live /\ members[m].subgroup = last'.s
             THEN [members[m] EXCEPT !.subgroup = None]
             ELSE members[m]]_vars

\* a completed DeleteSubgroup that cleared a member while another member keeps
\* its assignment to a different subgroup
C2_Witness ==
  /\ last.op = "DeleteSubgroup" /\ last.status = 200 /\ last.n >= 1
  /\ \E m \in MemberIds :
       members[m].live /\ members[m].group = last.g /\ members[m].subgroup = None
  /\ \E m \in MemberIds :
       members[m].live /\ members[m].subgroup \notin {None, last.s}

\* C3: no (person, group) pair ever has two GroupMember records, and an
\* AddMember that passes the access check for a pair that already has a record
\* answers 400 DuplicateMembership and leaves the records unchanged.
C3_AddMemberDuplicateRejected ==
  /\ [](\A p \in PersonIds, g \in GroupIds :
          Cardinality(MembersOfPair(members, p, g)) <= 1)
  /\ [][(/\ last'.op = "AddMember"
         /\ last'.status # 403
         /\ MembersOfPair(members, last'.p, last'.g) # {}) =>
          (/\ last'.status = 400
           /\ last'.err = "DuplicateMembership"
           /\ members' = members)]_vars

\* an AddMember answered with DuplicateMembership
C3_Witness ==
  last.op = "AddMember" /\ last.status = 400 /\ last.err = "DuplicateMembership"

\* the decision section 4.4 of the specification gives for a group
ExpectedGroupAccess(t, g) ==
  t.role = "admin" \/ "manage_groups" \in t.permissions \/ g \in t.groupLeaderships

\* the decision section 4.4 of the specification gives for a subgroup
ExpectedSubgroupAccess(t, s) ==
  \/ SubgroupFindById(s) /\ ExpectedGroupAccess(t, subgroups[s].parentGroup)
  \/ s \in t.subgroupLeaderships
  \/ t.role = "admin" \/ "manage_groups" \in t.permissions

\* the actor leads neither G nor a subgroup of G and holds no general right
Unprivileged(a, g) ==
  LET t == tokens[a] IN
  /\ t.issued
  /\ ~ExpectedGroupAccess(t, g)
  /\ \A s \in t.subgroupLeaderships : subgroups[s].parentGroup # g
  /\ g \notin Range(users[a].groupLeaderships)
  /\ users[a].person \notin Range(groups[g].leaders)
  /\ \A s \in SubgroupsOfGroup(subgroups, g) :
       /\ s \notin Range(users[a].subgroupLeaderships)
       /\ users[a].person \notin Range(subgroups[s].leaders)

\* everything stored about group G
GroupData(g) ==
  <<groups[g],
    {<<s, subgroups[s]>> : s \in SubgroupsOfGroup(subgroups, g)},
    {<<m, members[m]>> : m \in MembersOfGroup(members, g)},
    {u \in UserIds : g \in Range(users[u].groupLeaderships)}>>

\* C7: a request of an actor who is not admin, lacks manage_groups and leads
\* neither G nor a subgroup of G is answered 403 when it addresses G, changes
\* no stored state then, and never changes what is stored about G.
C7_UnprivilegedActorRejected ==
  [][\A g \in GroupIds :
       (/\ last'.op # "Login"
        /\ last'.actor \in UserIds
        /\ groups[g].live
        /\ Unprivileged(last'.actor, g)) =>
         /\ last'.g = g => (last'.status = 403 /\ UNCHANGED store)
         /\ GroupData(g)' = GroupData(g)]_vars

\* C8: at every call the group access decision equals "admin, or holds
\* manage_groups, or groupId in groupLeaderships", a refusal changes nothing,
\* and the validate-group-permission endpoint decides the same.
C8_GroupAccessDecision ==
  [][/\ last'.op = "ValidateGroupPermission" =>
          ((last'.n = 1) <=> ExpectedGroupAccess(tokens[last'.actor], last'.g))
     /\ last'.op = "AddMember" =>
          ((last'.status # 403) <=>
             ExpectedGroupAccess(tokens[last'.actor], last'.g))
     /\ (last'.op \in {"UpdateMember", "RemoveMember"}
         /\ last'.status \notin {404, 500}) =>
          ((last'.status # 403) <=>
             ExpectedGroupAccess(tokens[last'.actor], last'.g))
     /\ last'.status = 403 => UNCHANGED store]_vars

\* C9: the subgroup access decision equals "passes the group check for the
\* subgroup's parentGroup, or subgroupId in subgroupLeaderships, or admin /
\* manage_groups"; it costs at most one Subgroup lookup; a refusal changes
\* no stored state.
C9_SubgroupAccessDecision ==
  /\ [](\A a \in UserIds, s \in SubgroupIds :
          tokens[a].issued =>
            LET r == authorizeSubgroupAccess(tokens[a], Str(s)) IN
            /\ r.lookups <= 1
            /\ r.ok <=> ExpectedSubgroupAccess(tokens[a], s))
  /\ [][last'.op \in {"AddToSubgroup", "RemoveFromSubgroup"} =>
          /\ (last'.status # 403) <=>
               ExpectedSubgroupAccess(tokens[last'.actor], last'.s)
          /\ last'.status = 403 => UNCHANGED store]_vars

\* a member assigned to a subgroup by an actor who is neither admin nor a
\* leader of that subgroup: access came through the parent group
C9_Witness ==
  /\ last.op = "AddToSubgroup" /\ last.status = 200
  /\ tokens[last.actor].role # "admin"
  /\ "manage_groups" \notin tokens[last.actor].permissions
  /\ last.s \notin tokens[last.actor].subgroupLeaderships

\* C10: an AddMember that passes the access check and names a subgroup in
\* whose parent group the person has no membership answers
\* InvalidSubgroupAssignment and creates no GroupMember.
C10_AddMemberChecksSubgroup ==
  [][(/\ last'.op = "AddMember"
      /\ last'.status # 403
      /\ last'.s # None
      /\ SubgroupFindById(last'.s)
      /\ MembersOfPair(members, last'.p, subgroups[last'.s].parentGroup) = {}) =>
       (last'.err = "InvalidSubgroupAssignment" /\ members' = members)]_vars

\* C5: after AssignGroupLeadership(u, g) completes successfully both
\* g \in u.groupLeaderships and u.person \in g.leaders hold; after
\* RemoveGroupLeadership(u, g) completes successfully neither holds.
C5_LeadershipPostconditions ==
  /\ (last.op = "AssignGroupLeadership" /\ last.status = 200) =>
       /\ last.g \in Range(users[last.u].groupLeaderships)
       /\ users[last.u].person \in Range(groups[last.g].leaders)
  /\ (last.op = "RemoveGroupLeadership" /\ last.status = 200) =>
       /\ last.g \notin Range(users[last.u].groupLeaderships)
       /\ users[last.u].person \notin Range(groups[last.g].leaders)

\* C5 witness: a leadership held on both sides has just been removed
C5_Witness ==
  /\ last.op = "RemoveGroupLeadership"
  /\ last.status = 200
  /\ last.n = 1
  /\ users[last.u].live
  /\ groups[last.g].live

\* C6: when no operation is in progress, for every ChurchUser U and Group G,
\* G \in U.groupLeaderships if and only if U.person \in G.leaders.
C6_LeadershipMirror ==
  InProgress = {} =>
    \A u \in UserIds, g \in GroupIds :
      (users[u].live /\ groups[g].live) =>
        (g \in Range(users[u].groupLeaderships)
           <=> users[u].person \in Range(groups[g].leaders))

\* C4: when two AddMember calls for the same (person, group) pair both pass
\* the existence pre-check before either saves, exactly one GroupMember
\* results for the pair, one call succeeds, and the other is answered with
\* the client error DuplicateMembership.
C4_RaceYieldsOneRecord ==
  \A r1 \in reqs, r2 \in reqs :
    ( /\ r1.id # r2.id
      /\ r1.g = r2.g /\ r1.p = r2.p
      /\ r1.id \in r2.peers
      /\ r1.pc = "done" /\ r2.pc = "done" ) =>
        /\ Cardinality(MembersOfPair(members, r1.p, r1.g)) = 1
        /\ \E ok \in {r1, r2}, ko \in {r1, r2} :
             /\ ok.id # ko.id
             /\ ok.status = 200
             /\ ko.status = 400 /\ ko.err = "DuplicateMembership"

\* C11: an operation that would set member m's subgroup to a subgroup whose
\* parentGroup differs from m.group (member update, add-to-subgroup) answers
\* SubgroupGroupMismatch and leaves m unchanged.
C11_SubgroupGroupMismatchRejected ==
  [][/\ (/\ last'.op = "UpdateMember"
         /\ last'.status \notin {403, 404, 500}
         /\ last'.s # None
         /\ SubgroupFindById(last'.s)
         /\ subgroups[last'.s].parentGroup # members[last'.m].group) =>
          (/\ last'.err = "SubgroupGroupMismatch"
           /\ members'[last'.m] = members[last'.m])
     /\ (last'.op = "AddToSubgroup" /\ SubgroupFindById(last'.s)) =>
          \A m \in MemberIds :
            (members[m].live
             /\ members[m].group # subgroups[last'.s].parentGroup) =>
              members'[m] = members[m]]_vars

\* C12: add-to-subgroup for a person without a GroupMember record in the
\* subgroup's parent group answers InvalidSubgroupAssignment and leaves every
\* record as it was; with the record it succeeds and changes only that
\* record's subgroup, to S.
C12_AddToSubgroupNeedsParentMembership ==
  [][(/\ last'.op = "AddToSubgroup"
      /\ last'.status \notin {403, 404}) =>
       IF MembersOfPair(members, last'.p, subgroups[last'.s].parentGroup) = {}
         THEN /\ last'.status = 400
              /\ last'.err = "InvalidSubgroupAssignment"
              /\ members' = members
         ELSE /\ last'.status = 200
              /\ \E m \in MembersOfPair(members, last'.p,
                                        subgroups[last'.s].parentGroup) :
                   members' = [members EXCEPT ![m].subgroup = last'.s]
              /\ UNCHANGED <<persons, users, groups, subgroups, nextId>>]_vars

\* a person was put into a subgroup of a group it belongs to while it also
\* has a record in another group
C12_Witness ==
  /\ last.op = "AddToSubgroup" /\ last.status = 200
  /\ members[last.m].subgroup = last.s
  /\ \E m \in MemberIds :
       /\ members[m].live
       /\ members[m].person = last.p
       /\ members[m].group # last.g

\* the members an attendance request or report for group g / subgroup s is about
TargetMembers(g, s) ==
  IF g # None THEN MembersOfGroup(members, g) ELSE MembersOfSubgroup(members, s)

\* C13: a RecordAttendance request that passed the access check appends, for
\* each of its records that names a member of the target, exactly one entry
\* with the request's date at the end of that member's attendance, earlier
\* entries unchanged; two records with the same date leave two entries.
C13_RecordAttendanceAppends ==
  [][(last'.op = "RecordAttendance" /\ last'.status = 200) =>
       \A m \in MemberIds :
         LET old == members[m].attendance
             new == members'[m].attendance
             named == {i \in DOMAIN last'.results : last'.results[i].memberId = m}
             added == IF m \in TargetMembers(last'.g, last'.s)
                        THEN Cardinality(named) ELSE 0
         IN /\ Len(new) = Len(old) + added
            /\ SubSeq(new, 1, Len(old)) = old
            /\ \A i \in (Len(old) + 1)..Len(new) : new[i].date = last'.k]_vars

\* C14: an attendance report for a group or a subgroup gives, for each
\* GroupMember of the target, exactly that member's entries with
\* startDate <= date <= endDate in insertion order (a member without a row
\* counts as a member with no entries returned), and no row for a member
\* outside the target.
C14_ReportIsDateRangeOfTarget ==
  (last.op = "GetAttendanceReport" /\ last.status = 200) =>
    /\ \A row \in last.report : row.memberId \in TargetMembers(last.g, last.s)
    /\ \A m \in TargetMembers(last.g, last.s) :
         LET rows == {row \in last.report : row.memberId = m}
             wanted == SelectSeq(members[m].attendance,
                                 LAMBDA e : last.n <= e.date /\ e.date <= last.k)
         IN IF rows = {} THEN wanted = <<>>
            ELSE rows = {[memberId |-> m, attendance |-> wanted]}

\* number of occurrences of v in the list
Occurrences(list, v) == Cardinality({i \in DOMAIN list : list[i] = v})

\* C15: AssignGroupLeadership(u, g) applied right after a completed
\* AssignGroupLeadership(u, g) changes nothing, and after a completed
\* AssignGroupLeadership(u, g) u.person occurs once in g.leaders and g occurs
\* once in u.groupLeaderships.
C15_AssignIsIdempotent ==
  /\ []((last.op = "AssignGroupLeadership" /\ last.status = 200) =>
          /\ Occurrences(groups[last.g].leaders, users[last.u].person) = 1
          /\ Occurrences(users[last.u].groupLeaderships, last.g) = 1)
  /\ [][(/\ last.op = "AssignGroupLeadership" /\ last.status = 200
         /\ last'.op = "AssignGroupLeadership" /\ last'.status = 200
         /\ last'.u = last.u /\ last'.g = last.g) =>
          UNCHANGED store]_vars

\* C16: a run of DeleteGroup, DeleteSubgroup, AssignGroupLeadership or
\* RemoveGroupLeadership that failed after some of its store writes and was
\* sent again, with no other operation in between, ends with 200 in the store
\* that one uninterrupted run would have produced.
C16_RetryReachesSameState ==
  \A r \in reqs :
    (r.phase = "done" /\ r.retried) =>
      /\ StoreNow = r.expect
      /\ last = RunResponse(r.op, r.actor, 200, r.u, r.t)

\* a DeleteGroup run that failed after two writes has been re-run to its end
C16_Witness ==
  \E r \in reqs :
    /\ r.op = "DeleteGroup"
    /\ r.phase = "done"
    /\ r.retried
    /\ r.failedAt = 2

\* C17: DeleteGroup deletes the Group record last and pulls the group from
\* every account: whenever the Group record of a run's target is gone, no
\* Subgroup has it as parentGroup, no GroupMember has it as group, and no
\* account lists it in groupLeaderships.
C17_GroupRecordDeletedLast ==
  \A r \in reqs :
    (r.op = "DeleteGroup" /\ ~groups[r.t].live) =>
      /\ SubgroupsOfGroup(subgroups, r.t) = {}
      /\ MembersOfGroup(members, r.t) = {}
      /\ \A u \in UserIds :
           users[u].live => r.t \notin Range(users[u].groupLeaderships)

\* a DeleteGroup run has deleted the record of a group that an account led
\* and that held subgroups and members when the run began
C17_Witness ==
  \E r \in reqs :
    /\ r.op = "DeleteGroup"
    /\ r.phase = "done"
    /\ ~groups[r.t].live
    /\ SubgroupsOfGroup(r.start.subgroups, r.t) # {}
    /\ MembersOfGroup(r.start.members, r.t) # {}
    /\ \E u \in UserIds : r.t \in Range(r.start.users[u].groupLeaderships)
    /\ last.op = "DeleteGroup"
    /\ last.status = 200
    /\ last.g = r.t

\* C18: DeleteSubgroup deletes the Subgroup record only after the member and
\* leadership references are cleared: whenever the Subgroup record of a run's
\* target is gone, and so after the run completed, no GroupMember has it as
\* subgroup and no account lists it in subgroupLeaderships; the members stay.
C18_SubgroupRecordDeletedLast ==
  \A r \in reqs :
    (r.op = "DeleteSubgroup" /\ ~subgroups[r.t].live) =>
      /\ MembersOfSubgroup(members, r.t) = {}
      /\ \A u \in UserIds :
           users[u].live => r.t \notin Range(users[u].subgroupLeaderships)
      /\ \A m \in MembersOfSubgroup(r.start.members, r.t) : members[m].live

\* a DeleteSubgroup run has deleted the record of a subgroup that an account
\* led and that held a member when the run began
C18_Witness ==
  \E r \in reqs :
    /\ r.op = "DeleteSubgroup"
    /\ r.phase = "done"
    /\ ~subgroups[r.t].live
    /\ MembersOfSubgroup(r.start.members, r.t) # {}
    /\ \E u \in UserIds : r.t \in Range(r.start.users[u].subgroupLeaderships)
    /\ last.op = "DeleteSubgroup"
    /\ last.status = 200
    /\ last.s = r.t

\* C19: an AddMember that passes the group access check, for an existing
\* group and a (person, group) pair without a membership, answers 200 and
\* creates exactly one GroupMember with that person and group, role member
\* and an empty attendance sequence, which it returns.
C19_AddMemberCreatesMembership ==
  [][(/\ last'.op = "AddMember"
      /\ last'.status # 403
      /\ groups[last'.g].live
      /\ MembersOfPair(members, last'.p, last'.g) = {}) =>
       (/\ last'.status = 200
        /\ last'.m \in MemberIds
        /\ ~members[last'.m].live
        /\ members'[last'.m].live
        /\ members'[last'.m].person = last'.p
        /\ members'[last'.m].group = last'.g
        /\ members'[last'.m].role = "member"
        /\ members'[last'.m].attendance = <<>>
        /\ \A m \in MemberIds \ {last'.m} : members'[m] = members[m])]_vars

\* C20: every stored Subgroup's parentGroup references an existing Group in
\* every reachable state, and a Subgroup creation that passes the access
\* check and names a parentGroup without a Group record answers 404 NotFound
\* and stores nothing, through POST /api/subgroups and
\* POST /api/groups/:id/subgroups alike.
C20_ParentGroupExists ==
  /\ [](\A sg \in SubgroupIds :
          subgroups[sg].live => groups[subgroups[sg].parentGroup].live)
  /\ [][(/\ last'.op \in {"CreateSubgroup", "CreateGroupSubgroup"}
         /\ last'.status # 403
         /\ ~groups[last'.g].live) =>
          (/\ last'.status = 404
           /\ last'.err = "NotFound"
           /\ UNCHANGED store)]_vars

\* C21: every GroupMember's group references an existing Group and its person
\* an existing Person in every reachable state, and an AddMember that passes
\* the access check and names a Group or a Person that does not exist answers
\* 404 NotFound and creates nothing.
C21_AddMemberNeedsGroupAndPerson ==
  /\ [](\A m \in MemberIds :
          members[m].live =>
            groups[members[m].group].live /\ members[m].person \in persons)
  /\ [][(/\ last'.op = "AddMember"
         /\ last'.status # 403
         /\ ~groups[last'.g].live \/ last'.p \notin persons) =>
          (/\ last'.status = 404
           /\ last'.err = "NotFound"
           /\ members' = members)]_vars

\* C22: in every state (no operation is ever in progress between two steps),
\* for every ChurchUser U and Subgroup S: S is in U.subgroupLeaderships if and
\* only if U.person is in S.leaders.
C22_SubgroupLeadershipMirror ==
  \A u \in UserIds, sg \in SubgroupIds :
    (users[u].live /\ subgroups[sg].live) =>
      (sg \in Range(users[u].subgroupLeaderships)
         <=> users[u].person \in Range(subgroups[sg].leaders))

\* C23: a successful RemoveMember(m) deletes exactly the GroupMember record m
\* and no other record; a successful removal from a subgroup (the subgroup
\* route, or a member update to no subgroup) keeps the record and changes at
\* most its subgroup field, which becomes empty, leaving person, group, role
\* and attendance and every other record unchanged.
C23_RemovalFrame ==
  [][/\ (last'.op = "RemoveMember" /\ last'.status = 200) =>
          /\ members[last'.m].live
          /\ members' = [members EXCEPT ![last'.m] = NoMember]
          /\ UNCHANGED <<persons, users, groups, subgroups>>
     /\ (last'.op = "RemoveFromSubgroup" /\ last'.status = 200) =>
          /\ members[last'.m].live
          /\ members[last'.m].subgroup = last'.s
          /\ members' = [members EXCEPT ![last'.m].subgroup = None]
          /\ UNCHANGED <<persons, users, groups, subgroups>>
     /\ (last'.op = "UpdateMember" /\ last'.status = 200 /\ last'.s = None) =>
          /\ members[last'.m].live
          /\ members' \in {members, [members EXCEPT ![last'.m].subgroup = None]}
          /\ UNCHANGED <<persons, users, groups, subgroups>>]_vars

\* a member was removed while another record of the same person stays stored
C23_Witness ==
  /\ last.op = "RemoveMember"
  /\ last.status = 200
  /\ ~members[last.m].live
  /\ \E m \in MemberIds : members[m].live /\ SeedPerson(m) = SeedPerson(last.m)

\* C24: in every reachable state every GroupMember whose subgroup is set
\* references an existing Subgroup whose parentGroup equals the member's group.
C24_MemberSubgroupInGroup ==
  \A m \in MemberIds :
    (members[m].live /\ members[m].subgroup # None) =>
      /\ SubgroupFindById(members[m].subgroup)
      /\ subgroups[members[m].subgroup].parentGroup = members[m].group

\* C25: once every request has completed, no GroupMember with group G and no
\* Subgroup with parentGroup G exists for a group G that a DeleteGroup deleted,
\* and no GroupMember has subgroup S for a subgroup S that a DeleteSubgroup
\* deleted, however the deletion was interleaved with AddMember, subgroup
\* creation and add-to-subgroup.
C25_NoDependentsAfterInterleaving ==
  RaceInProgress = {} =>
    \A r \in reqs :
      /\ (r.op = "DeleteGroup" /\ r.pc = RunWrites("DeleteGroup")) =>
           /\ MembersOfGroup(members, r.t) = {}
           /\ SubgroupsOfGroup(subgroups, r.t) = {}
      /\ (r.op = "DeleteSubgroup" /\ r.pc = RunWrites("DeleteSubgroup")) =>
           MembersOfSubgroup(members, r.t) = {}

\* C26: a mutating request on group g (group update, AddMember, DeleteGroup)
\* made by an account that is not admin, lacks manage_groups and, in the
\* store, no longer leads g (its leadership was removed, or g was deleted) is
\* rejected as Unauthorized, whatever token the account presents.
C26_FormerLeaderRejected ==
  [][(/\ last'.op \in {"UpdateGroup", "AddMember", "DeleteGroup"}
      /\ users[last'.actor].role # "admin"
      /\ "manage_groups" \notin users[last'.actor].permissions
      /\ \/ ~groups[last'.g].live
         \/ last'.g \notin Range(users[last'.actor].groupLeaderships)) =>
       (last'.status = 403 /\ last'.err = "Unauthorized")]_vars

\* C27: a member update or removal is refused as Unauthorized exactly when
\* the access check of AddMember, fed the id of the member's group as the
\* request path carries it, refuses the actor: an actor whose token lists
\* group G in groupLeaderships may update and remove the members of G.
C27_MemberAccessAsAddMember ==
  [][(/\ last'.op \in {"UpdateMember", "RemoveMember"}
      /\ members[last'.m].live
      /\ GroupFindById(members[last'.m].group)) =>
       (last'.status = 403
          <=> ~authorizeGroupAccess(tokens[last'.actor],
                                    Str(members[last'.m].group)))]_vars

\* C28: in every reachable state the permissions of each ChurchUser are the
\* set the role table gives for the user's current role.
C28_PermissionsFollowRole ==
  \A u \in UserIds :
    users[u].live => users[u].permissions = ROLE_PERMISSIONS(users[u].role)

\* C29: a batch attendance request for a group or a subgroup returns exactly
\* one result per input record, in input order; a record whose member does
\* not exist or does not belong to the target yields a failure result and
\* does not stop the later records; the request changes nothing but the
\* attendance of members of the target, one entry per successful result.
C29_BatchAttendanceResults ==
  /\ [](\A kind \in {"group", "subgroup"}, target \in SeedGroupIds,
           data \in AttendanceData, date \in RecordDates,
           church \in {Undefined, Church} :
          LET results == AttendanceResults(members, data, date, kind, target, church)
              saved == AttendanceSaved(members, data, date, kind, target, church)
              targets == IF kind = "group" THEN MembersOfGroup(members, target)
                         ELSE MembersOfSubgroup(members, target)
          IN /\ Len(results) = Len(data)
             /\ \A i \in DOMAIN data :
                  /\ results[i].memberId = data[i].memberId
                  /\ data[i].memberId \notin targets => ~results[i].success
                  /\ church = Church =>
                       (results[i].success <=> data[i].memberId \in targets)
             /\ \A m \in MemberIds :
                  /\ [saved[m] EXCEPT !.attendance = <<>>]
                       = [members[m] EXCEPT !.attendance = <<>>]
                  /\ Len(saved[m].attendance) = Len(members[m].attendance)
                       + Cardinality({i \in DOMAIN data :
                                        data[i].memberId = m /\ results[i].success})
                  /\ m \notin targets => saved[m] = members[m])
  /\ [][(last'.op = "RecordAttendance" /\ last'.status = 200) =>
          /\ \E data \in AttendanceData :
               /\ Len(last'.results) = Len(data)
               /\ \A i \in DOMAIN data : last'.results[i].memberId = data[i].memberId
          /\ \A i \in DOMAIN last'.results :
               last'.results[i].memberId \notin TargetMembers(last'.g, last'.s)
                 => ~last'.results[i].success
          /\ \A m \in MemberIds \ TargetMembers(last'.g, last'.s) :
               members'[m] = members[m]
          /\ UNCHANGED <<persons, users, groups, subgroups>>]_vars

\* a batch of two records for group 2 whose first record names member 1 of
\* group 1 was answered with two results, the first a failure
C29_Witness ==
  /\ last.op = "RecordAttendance"
  /\ last.status = 200
  /\ last.g = 2
  /\ Len(last.results) = 2
  /\ last.results[1].memberId = 1
  /\ ~last.results[1].success
  /\ last.results[2].memberId = 3

\* C30: for every event and person at most one Attendance record exists;
\* when no check-in is in progress event.attendees holds exactly one entry
\* per Attendance record of the event; and a check-in that arrives for a pair
\* already checked in is answered 400 and changes nothing.
C30_OneAttendancePerPair ==
  /\ [](\A e \in EventIds, p \in PersonIds :
          Cardinality(AttendanceOfPair(e, p)) <= 1)
  /\ [](reqs = {} =>
          \A e \in EventIds, p \in PersonIds :
            Occurrences(events[e].attendees, p) = Cardinality(AttendanceOfPair(e, p)))
  /\ [][(/\ last'.op = "CheckIn"
         /\ last' # last
         /\ AttendanceOfPair(last'.k, last'.p) # {}
         /\ reqs' = reqs
         /\ last'.status \notin {403, 404}) =>
          (last'.status = 400 /\ UNCHANGED store)]_vars

====
